---- MODULE Spec2Model ----
(***************************************************************************)
(* Model of the chat data layer of the game design team application:       *)
(*   - the event normalizer  GoogleADKDataLayer._convert_event_to_chainlit *)
(*   - the thread assembler  GoogleADKDataLayer._convert_events_to_chainlit*)
(*   - the thread listing    GoogleADKDataLayer.list_threads               *)
(* Python values are modelled as follows: an absent string (None) is the   *)
(* string None; an optional object is a record with a "present" flag; a    *)
(* dict is the set of its keys, or a token that PyStr renders as the dict's *)
(* str(); a list is a sequence.                                            *)
(***************************************************************************)
EXTENDS Integers, Sequences, FiniteSets, TLC

VARIABLES
    event,      \* the Event handed to _convert_event_to_chainlit
    result,     \* what that call produced: not called, returned, or raised
    session,    \* the Session handed to _convert_events_to_chainlit
    thread,     \* what the assembler produced for it
    sessions,   \* the rows of the sessions table
    clock,      \* the store's current time
    page,       \* what list_threads produced
    events,     \* the rows of the events table
    calls,      \* the delete_thread calls under way
    ret,        \* the latest call on the data layer and what it gave
    manager,    \* the database manager's delete under way
    proc,       \* the process: its environment, start-up, signals and exit
    walk,       \* a client paging through list_threads
    chat,       \* a chat: its user session and its callbacks under way
    pipeline    \* a run of the project pipeline

vars == <<event, result, session, thread, sessions, clock, page,
          events, calls, ret, manager, proc, walk, chat, pipeline>>

\* the variables of the store's callers and of the process
aux == <<events, calls, ret, manager, proc, walk, chat, pipeline>>

(***************************************************************************)
(* Bounds                                                                  *)
(***************************************************************************)
MaxParts == 3        \* longest part list of an event
MaxEvents == 2       \* longest event list of a session
MaxSessions == 3     \* most rows of the sessions table
MaxClock == 2        \* latest creation time
MaxSignals == 2      \* most signals delivered to the process
MaxCleanups == 2     \* most calls of cleanup() made by the running app
MaxMessages == 2     \* most messages a chat receives
MaxDays == 2         \* largest age in days asked of delete_old_sessions
MaxFirst == 2        \* largest page size asked of list_threads

(***************************************************************************)
(* Python values                                                           *)
(***************************************************************************)
None == "None"

\* bool(x) of an optional string: None and "" are falsy
Truthy(x) == x # None /\ x # ""

\* str(d) of an optional dict whose single value is the token d
PyStr(d) == IF d = None THEN "None" ELSE "{'v': '" \o d \o "'}"

\* the backquote character of the error step's f-string (a TLA+ string
\* cannot hold one)
BQ == "<backquote>"

\* str(t) of a float timestamp with an integral value
PyStrFloat(t) == ToString(t) \o ".0"

(***************************************************************************)
(* Events, contents and parts (google.adk.events.Event, google.genai.types)*)
(***************************************************************************)
NoCall == [present |-> FALSE, name |-> None, args |-> None, id |-> None]
NoResponse == [present |-> FALSE, id |-> None, response |-> None]

Call(name, args, id) == [present |-> TRUE, name |-> name, args |-> args, id |-> id]
Response(id, response) == [present |-> TRUE, id |-> id, response |-> response]

Part(text, fc, fr) == [text |-> text, function_call |-> fc, function_response |-> fr]

CallIds == {"c1", None}

TextParts == {Part(t, NoCall, NoResponse) : t \in {"A", "B", ""}}
\* a call with every field set, and a call with no name, arguments or id
CallParts == {Part(None, Call("f", "x", "c1"), NoResponse),
              Part(None, Call(None, None, None), NoResponse)}
ResponseParts == {Part(None, NoCall, Response("c1", "R")),
                  Part(None, NoCall, Response(None, "S"))}
\* a part with no field set, and a part with every field set
OddParts == {Part(None, NoCall, NoResponse),
             Part("A", Call("f", "x", "c1"), Response("c1", None))}

Parts == TextParts \cup CallParts \cup ResponseParts \cup OddParts

\* the sequences over S of length at most n
SeqsUpTo(S, n) == UNION {[1..k -> S] : k \in 0..n}

NoContent == [present |-> FALSE, role |-> None, hasParts |-> FALSE, parts |-> << >>]
\* a Content whose parts attribute is None
ContentNoParts(role) == [present |-> TRUE, role |-> role, hasParts |-> FALSE, parts |-> << >>]
Content(role, parts) == [present |-> TRUE, role |-> role, hasParts |-> TRUE, parts |-> parts]

Contents(P, n) ==
    {NoContent}
    \cup {ContentNoParts(r) : r \in {"user", "model"}}
    \cup {Content(r, ps) : r \in {"user", "model"}, ps \in SeqsUpTo(P, n)}

\* state_delta: absent, the empty dict, a dict with one key
NoDelta == [present |-> FALSE, keys |-> {}]
Delta(keys) == [present |-> TRUE, keys |-> keys]
StateDeltas == {NoDelta, Delta({}), Delta({"k"})}

NoActions == [present |-> FALSE, state_delta |-> NoDelta]
Actions(sd) == [present |-> TRUE, state_delta |-> sd]

\* custom_metadata: None or a dict, as the set of its keys
NoMetadata == [present |-> FALSE, keys |-> {}]
Metadata(keys) == [present |-> TRUE, keys |-> keys]

\* (error_code, error_message, custom_metadata)
Headers == {<<None, None, NoMetadata>>, <<None, None, Metadata({"m"})>>,
            <<"", None, NoMetadata>>,
            <<"E", "boom", NoMetadata>>, <<"E", "boom", Metadata({"m"})>>}

Event(id, h, c, a) ==
    [id |-> id, author |-> "agent", timestamp |-> 1,
     error_code |-> h[1], error_message |-> h[2],
     content |-> c, actions |-> a, custom_metadata |-> h[3]]

\* the action sets the agent framework builds: never None
AdkActions == {Actions(sd) : sd \in StateDeltas}

\* the action sets of the documented event model, where the set is optional
OptActions == AdkActions \cup {NoActions}

\* e is an event over the given action sets with at most MaxParts parts
IsEvent(e, actionSets) ==
    \E h \in Headers, c \in Contents(Parts, MaxParts), a \in actionSets :
        e = Event("e1", h, c, a)

NoResult == [called |-> FALSE, raised |-> FALSE, steps |-> << >>, elements |-> << >>]
Returned(steps, elements) ==
    [called |-> TRUE, raised |-> FALSE, steps |-> steps, elements |-> elements]
Raised == [called |-> TRUE, raised |-> TRUE, steps |-> << >>, elements |-> << >>]

(***************************************************************************)
(* The event normalizer: _convert_event_to_chainlit                        *)
(***************************************************************************)
StepDict(id, threadId, parentId, name, type, input, output, metadata, createdAt, showInput, isError) ==
    [id |-> id, threadId |-> threadId, parentId |-> parentId, name |-> name,
     type |-> type, input |-> input, output |-> output, metadata |-> metadata,
     createdAt |-> createdAt, showInput |-> showInput, isError |-> isError,
     feedback |-> None]

\* event.custom_metadata or {}
MetadataOrEmpty(e) ==
    IF e.custom_metadata.present /\ e.custom_metadata.keys # {}
    THEN e.custom_metadata.keys ELSE {}

\* the step of an event that carries an error code
ErrorStep(session_id, e) ==
    StepDict(e.id, session_id, None, e.author, "system_message", "",
             BQ \o e.error_code \o BQ \o "]" \o BQ \o ": " \o e.error_message,
             MetadataOrEmpty(e), PyStrFloat(e.timestamp), FALSE, TRUE)

\* the synthetic step of an event whose state_delta is falsy
StateUpdateStep(session_id, e) ==
    StepDict(e.id \o "_stupd", session_id, e.id, e.author, "system_message", "",
             "*State updated.*", MetadataOrEmpty(e), PyStrFloat(e.timestamp),
             FALSE, FALSE)

\* the step of a function_call part; part_id is f"{event.id}_{pId}"
CallStep(session_id, e, part_id, fc) ==
    StepDict(part_id, session_id, e.id,
             IF Truthy(fc.name) THEN fc.name ELSE "(unknown)",
             "tool", PyStr(fc.args), "(ERROR)", MetadataOrEmpty(e),
             PyStrFloat(e.timestamp), TRUE, FALSE)

\* the trailing message step of an event with text
MessageStep(session_id, e, event_text) ==
    StepDict(e.id, session_id, None, e.author,
             IF e.content.role = "user" THEN "user_message" ELSE "assistant_message",
             "", event_text, MetadataOrEmpty(e), PyStrFloat(e.timestamp),
             FALSE, FALSE)

\* DeltaFalsy with the test the other way round
DeltaTruthy(sd) == sd.present /\ sd.keys # {}

\* not event.actions.state_delta
DeltaFalsy(sd) == ~sd.present \/ sd.keys = {}

\* The locals of the part loop. function_call_steps maps a call id to the
\* position in steps of the dict it refers to (0: the id is no key); the
\* dict is shared with the steps list, so updating it updates the list.
LoopStart(session_id, e) ==
    [steps |-> IF DeltaFalsy(e.actions.state_delta)
               THEN <<StateUpdateStep(session_id, e)>> ELSE << >>,
     function_call_steps |-> [c \in CallIds |-> 0],
     event_text |-> "",
     pId |-> 0]

\* the "if part.function_call" branch of one loop iteration
OnFunctionCall(session_id, e, st, part) ==
    IF part.function_call.present
    THEN [st EXCEPT
            !.steps = Append(@, CallStep(session_id, e,
                                         e.id \o "_" \o ToString(st.pId),
                                         part.function_call)),
            !.function_call_steps[part.function_call.id] = Len(st.steps) + 1]
    ELSE st

\* OnFunctionResponse with a step of its own for the response
OnFunctionResponseNewStep(st, part) ==
    IF part.function_response.present
       /\ st.function_call_steps[part.function_response.id] # 0
    THEN LET k == st.function_call_steps[part.function_response.id]
         IN [st EXCEPT !.steps = Append(@,
                [st.steps[k] EXCEPT
                    !.output = PyStr(part.function_response.response)])]
    ELSE st

\* OnFunctionResponse with a step for a response that matches no call
OnFunctionResponseOrphanStep(st, part) ==
    IF part.function_response.present
    THEN IF st.function_call_steps[part.function_response.id] # 0
         THEN LET k == st.function_call_steps[part.function_response.id]
              IN [st EXCEPT !.steps[k].output = PyStr(part.function_response.response),
                            !.steps[k].isError = FALSE]
         ELSE [st EXCEPT !.steps = Append(@,
                 StepDict("orphan", "", None, "(unknown)", "tool", "",
                          PyStr(part.function_response.response), {}, "",
                          TRUE, FALSE))]
    ELSE st

\* the "if part.function_response" branch of one loop iteration
OnFunctionResponse(st, part) ==
    IF part.function_response.present
       /\ st.function_call_steps[part.function_response.id] # 0
    THEN LET k == st.function_call_steps[part.function_response.id]
         IN [st EXCEPT !.steps[k].output = PyStr(part.function_response.response),
                       !.steps[k].isError = FALSE]
    ELSE st

\* OnText that puts the new text in front
OnTextPrepend(st, part) ==
    IF Truthy(part.text)
    THEN [st EXCEPT !.event_text = part.text \o @]
    ELSE st

\* the "if part.text" branch of one loop iteration
OnText(st, part) ==
    IF Truthy(part.text)
    THEN [st EXCEPT !.event_text = @ \o part.text]
    ELSE st

\* one iteration of "for part in event.content.parts"
ProcessPart(session_id, e, st, part) ==
    LET counted == [st EXCEPT !.pId = @ + 1]
    IN OnText(OnFunctionResponse(OnFunctionCall(session_id, e, counted, part),
                                 part),
              part)

\* the locals after the first j iterations of the loop
RECURSIVE LoopState(_, _, _)
LoopState(session_id, e, j) ==
    IF j = 0 THEN LoopStart(session_id, e)
    ELSE ProcessPart(session_id, e, LoopState(session_id, e, j - 1),
                     e.content.parts[j])

\* ConvertEventToChainlit without the return after the error step
ConvertEventNoErrorReturn(session_id, e) ==
    LET errors == IF Truthy(e.error_code)
                  THEN <<ErrorStep(session_id, e)>> ELSE << >>
    IN IF ~e.content.present \/ ~e.content.hasParts \/ e.content.parts = << >>
       THEN Returned(errors, << >>)
       ELSE IF ~e.actions.present
       THEN Raised
       ELSE LET st == LoopState(session_id, e, Len(e.content.parts))
            IN Returned(errors \o
                        (IF st.event_text # ""
                         THEN Append(st.steps, MessageStep(session_id, e, st.event_text))
                         ELSE st.steps),
                        << >>)

\* ConvertEventToChainlit with the state_delta test ahead of the content tests
ConvertEventDeltaFirst(session_id, e) ==
    IF Truthy(e.error_code)
    THEN Returned(<<ErrorStep(session_id, e)>>, << >>)
    ELSE IF ~e.actions.present
    THEN Raised
    ELSE IF ~e.content.present \/ ~e.content.hasParts \/ e.content.parts = << >>
    THEN Returned(LoopStart(session_id, e).steps, << >>)
    ELSE LET st == LoopState(session_id, e, Len(e.content.parts))
         IN Returned(IF st.event_text # ""
                     THEN Append(st.steps, MessageStep(session_id, e, st.event_text))
                     ELSE st.steps,
                     << >>)

ConvertEventToChainlit(session_id, e) ==
    IF Truthy(e.error_code)
    THEN Returned(<<ErrorStep(session_id, e)>>, << >>)
    ELSE IF ~e.content.present
    THEN Returned(<< >>, << >>)
    ELSE IF ~e.content.hasParts \/ e.content.parts = << >>
    THEN Returned(<< >>, << >>)
    ELSE IF ~e.actions.present
    THEN Raised     \* AttributeError: None has no attribute state_delta
    ELSE LET st == LoopState(session_id, e, Len(e.content.parts))
         IN Returned(IF st.event_text # ""
                     THEN Append(st.steps, MessageStep(session_id, e, st.event_text))
                     ELSE st.steps,
                     << >>)

(***************************************************************************)
(* Specification of the normalizer: an event arrives and is converted.     *)
(***************************************************************************)
ThreadId == "t1"

NoSession == [id |-> ThreadId, events |-> << >>]
NoThread == NoResult
NoPage == [called |-> FALSE]

\* no data-layer call, no manager task, no process and no walk under way
Callers == {1, 2}
IdleCall == [pc |-> "idle", thread_id |-> << >>, author |-> None, outcome |-> "none", delegated |-> FALSE]
NoRet == [op |-> "none", arg |-> << >>, status |-> "returned", value |-> None]
IdleManager == [pc |-> "idle", name |-> "none", arg |-> << >>, stmts |-> << >>, events_deleted |-> 0, sessions_deleted |-> 0]
IdleProc == [pc |-> "off"]
IdleWalk == [pc |-> "off", request |-> << >>, visited |-> << >>]
IdleChat == [pc |-> "off", id |-> << >>, user |-> None, session_id |-> << >>, user_id |-> None, outcomes |-> {}, sent |-> "none", handled |-> 0, run |-> "idle", end |-> "idle", found |-> [present |-> FALSE, id |-> << >>, events |-> << >>]]
NoEvaluation == [present |-> FALSE, grade |-> None]

IdlePipeline == [pc |-> "off", times_looped |-> 0, gameplay_evaluation |-> NoEvaluation, ran |-> << >>, checks |-> << >>]

AuxIdle ==
    /\ events = {}
    /\ calls = [c \in Callers |-> IdleCall]
    /\ ret = NoRet
    /\ manager = IdleManager
    /\ proc = IdleProc
    /\ walk = IdleWalk
    /\ chat = IdleChat
    /\ pipeline = IdlePipeline

Idle ==
    /\ AuxIdle
    /\ session = NoSession
    /\ thread = NoThread
    /\ sessions = {}
    /\ clock = 0
    /\ page = NoPage

Init ==
    /\ IsEvent(event, AdkActions)
    /\ result = NoResult
    /\ Idle

Convert ==
    /\ ~result.called
    /\ result' = ConvertEventToChainlit(ThreadId, event)
    /\ UNCHANGED <<event, session, thread, sessions, clock, page, aux>>

Next == Convert

Spec == Init /\ [][Next]_vars

\* the same, over the events of the documented event model
InitOpt ==
    /\ IsEvent(event, OptActions)
    /\ result = NoResult
    /\ Idle

SpecOpt == InitOpt /\ [][Next]_vars

(***************************************************************************)
(* Vocabulary of the claims about the normalizer                           *)
(***************************************************************************)
EventParts == event.content.parts
NumParts == Len(EventParts)

\* the event reaches the part loop's preconditions: no error code, a content,
\* a non-empty part list
HasParts(e) ==
    /\ ~Truthy(e.error_code)
    /\ e.content.present /\ e.content.hasParts /\ e.content.parts # << >>

HasCall(j) == EventParts[j].function_call.present
HasResponse(j) == EventParts[j].function_response.present
HasText(j) == EventParts[j].text \notin {None, ""}

PartId(j) == event.id \o "_" \o ToString(j)

Max(S) == CHOOSE x \in S : \A y \in S : y <= x

\* the state_delta of the event's action set is absent or the empty dict
DeltaEmptyOrAbsent(e) ==
    ~e.actions.state_delta.present \/ e.actions.state_delta.keys = {}

\* 1 when the expansion starts with the synthetic step, else 0
Lead == IF DeltaEmptyOrAbsent(event) THEN 1 ELSE 0

\* the function_call part that the response of part j is paired with: the
\* latest call with the response's id among parts 1..j (0: there is none)
PairedCall(j) ==
    LET S == {i \in 1..j : HasCall(i) /\ EventParts[i].function_call.id
                                          = EventParts[j].function_response.id}
    IN IF S = {} THEN 0 ELSE Max(S)

\* the last response paired with the call of part i (0: there is none)
LastResponse(i) ==
    LET S == {j \in i..NumParts : HasResponse(j) /\ PairedCall(j) = i}
    IN IF S = {} THEN 0 ELSE Max(S)

CallsUpTo(j) == Cardinality({i \in 1..j : HasCall(i)})

IsToolStep(s) == s.type = "tool"
IsMessageStep(s) == s.type \in {"user_message", "assistant_message"}

\* C1: an event with an error code yields exactly one step, a system_message
\* with isError set, no parent and the event's id, and no element, whatever
\* content, parts and actions it carries.
ErrorEventYieldsOneErrorStep ==
    (result.called /\ Truthy(event.error_code)) =>
        /\ ~result.raised
        /\ Len(result.steps) = 1
        /\ result.steps[1].type = "system_message"
        /\ result.steps[1].isError = TRUE
        /\ result.steps[1].parentId = None
        /\ result.steps[1].id = event.id
        /\ result.elements = << >>

\* an error event without action set, with a call and a text among its parts
ErrorEventWithPartsConverted ==
    /\ result.called
    /\ Truthy(event.error_code)
    /\ ~event.actions.present
    /\ event.content.present /\ NumParts >= 2
    /\ \E i, j \in 1..NumParts : i < j /\ HasCall(i) /\ HasText(j)
    /\ Len(result.steps) = 1

\* C2: a response paired with a call of the same event adds no step and
\* rewrites the call's step where it stands: the step keeps position and id,
\* takes the stringified payload as output and has isError false; the step of
\* a call nothing is paired with keeps the output "(ERROR)".
ResponseUpdatesCallStepInPlace ==
    (result.called /\ HasParts(event)) =>
        /\ ~result.raised
        /\ Len(SelectSeq(result.steps, IsToolStep)) = CallsUpTo(NumParts)
        /\ \A i \in 1..NumParts : HasCall(i) =>
             LET s == result.steps[Lead + CallsUpTo(i)]
             IN /\ s.type = "tool"
                /\ s.id = PartId(i)
                /\ s.isError = FALSE
                /\ s.output = IF LastResponse(i) = 0 THEN "(ERROR)"
                              ELSE PyStr(EventParts[LastResponse(i)]
                                            .function_response.response)
        /\ \A j \in 1..NumParts : (HasResponse(j) /\ PairedCall(j) # 0) =>
             LET before == LoopState(ThreadId, event, j - 1)
                 after == LoopState(ThreadId, event, j)
                 k == Lead + CallsUpTo(PairedCall(j))
             IN /\ Len(after.steps)
                     = Len(before.steps) + (IF HasCall(j) THEN 1 ELSE 0)
                /\ after.steps[k].id = PartId(PairedCall(j))
                /\ after.steps[k].output
                     = PyStr(EventParts[j].function_response.response)
                /\ after.steps[k].isError = FALSE
                /\ \A p \in 1..Len(before.steps) :
                     p # k => after.steps[p] = before.steps[p]

\* a call answered by a later part, next to a call that is never answered
CallAnsweredAndCallUnanswered ==
    /\ result.called /\ HasParts(event)
    /\ \E i, j, u \in 1..NumParts :
         /\ i < j /\ HasCall(i) /\ HasResponse(j) /\ PairedCall(j) = i
         /\ EventParts[j].function_response.response = "R"
         /\ HasCall(u) /\ LastResponse(u) = 0
         /\ result.steps[Lead + CallsUpTo(i)].output = "{'v': 'R'}"
         /\ result.steps[Lead + CallsUpTo(u)].output = "(ERROR)"

\* C3: a response whose id is the id of no call among the parts up to it adds
\* no step, changes no step emitted so far, and normalization still returns.
OrphanResponseIsDropped ==
    (result.called /\ HasParts(event)) =>
        /\ ~result.raised
        /\ Len(result.steps) >= Len(LoopState(ThreadId, event, NumParts).steps)
        /\ SubSeq(result.steps, 1, Lead + CallsUpTo(NumParts))
             = LoopState(ThreadId, event, NumParts).steps
        /\ \A j \in 1..NumParts : (HasResponse(j) /\ PairedCall(j) = 0) =>
             LET before == LoopState(ThreadId, event, j - 1)
                 after == LoopState(ThreadId, event, j)
             IN /\ Len(after.steps)
                     = Len(before.steps) + (IF HasCall(j) THEN 1 ELSE 0)
                /\ SubSeq(after.steps, 1, Len(before.steps)) = before.steps
        /\ (\A j \in 1..NumParts : HasResponse(j) => PairedCall(j) = 0) =>
             \A k \in 1..Len(result.steps) :
                IsToolStep(result.steps[k]) => result.steps[k].output = "(ERROR)"

\* a response that comes before the only call with its id
ResponseBeforeItsCall ==
    /\ result.called /\ HasParts(event) /\ ~result.raised
    /\ \E j, i \in 1..NumParts :
         /\ j < i /\ HasResponse(j) /\ PairedCall(j) = 0
         /\ HasCall(i)
         /\ EventParts[i].function_call.id = EventParts[j].function_response.id
         /\ LastResponse(i) = 0
         /\ result.steps[Lead + CallsUpTo(i)].output = "(ERROR)"

\* the texts of parts j.. of the event, joined in part order
RECURSIVE TextFrom(_)
TextFrom(j) ==
    IF j > NumParts THEN ""
    ELSE (IF HasText(j) THEN EventParts[j].text ELSE "") \o TextFrom(j + 1)

\* C4: for an event without error code the texts of all parts are joined in
\* part order, whatever lies between them; a non-empty join gives exactly one
\* message step, the last step, with the join as output, the event's id, no
\* parent and kind user_message for role "user", else assistant_message; an
\* event without text gives no message step.
TextPartsJoinIntoOneTrailingMessage ==
    (result.called /\ ~Truthy(event.error_code)) =>
        LET messages == SelectSeq(result.steps, IsMessageStep)
            last == result.steps[Len(result.steps)]
        IN /\ ~result.raised
           /\ IF TextFrom(1) # ""
              THEN /\ Len(messages) = 1
                   /\ Len(result.steps) = Lead + CallsUpTo(NumParts) + 1
                   /\ IsMessageStep(last)
                   /\ last.output = TextFrom(1)
                   /\ last.id = event.id
                   /\ last.parentId = None
                   /\ last.type = IF event.content.role = "user"
                                  THEN "user_message" ELSE "assistant_message"
              ELSE Len(messages) = 0

\* the parts text "A", function call, text "B" give the message "AB"
TextAroundCallJoined ==
    /\ result.called /\ HasParts(event) /\ NumParts = 3
    /\ EventParts[1].text = "A" /\ HasCall(2) /\ EventParts[3].text = "B"
    /\ Len(result.steps) >= 2
    /\ result.steps[Len(result.steps)].output = "AB"
    /\ result.steps[Len(result.steps) - 1].type = "tool"

\* C5: an event with no error code and at least one part gets the synthetic
\* "*State updated.*" step (id event id + "_stupd", parent the event id,
\* showInput false) exactly when its state_delta is empty or absent, and then
\* as the first step; with a non-empty state_delta there is no such step.
StateUpdatedStepLeadsIffDeltaEmpty ==
    (result.called /\ HasParts(event)) =>
        LET synthetic == {k \in 1..Len(result.steps) :
                             \/ result.steps[k].id = event.id \o "_stupd"
                             \/ /\ result.steps[k].type = "system_message"
                                /\ result.steps[k].output = "*State updated.*"}
        IN /\ ~result.raised
           /\ IF DeltaEmptyOrAbsent(event)
              THEN /\ synthetic = {1}
                   /\ result.steps[1].id = event.id \o "_stupd"
                   /\ result.steps[1].type = "system_message"
                   /\ result.steps[1].output = "*State updated.*"
                   /\ result.steps[1].parentId = event.id
                   /\ result.steps[1].showInput = FALSE
              ELSE synthetic = {}

\* an event with an empty state_delta, a call and a text: three steps, the
\* synthetic one first
StateUpdatedStepBeforePartSteps ==
    /\ result.called /\ HasParts(event)
    /\ event.actions.state_delta = Delta({})
    /\ Len(result.steps) = 3
    /\ result.steps[1].output = "*State updated.*"
    /\ result.steps[2].type = "tool"
    /\ IsMessageStep(result.steps[3])

\* C6: an event with no error code and no content, or a content without
\* parts, yields no step and no element, also when its state_delta is empty.
NoPartsYieldNothing ==
    (/\ result.called
     /\ ~Truthy(event.error_code)
     /\ (~event.content.present \/ ~event.content.hasParts
         \/ event.content.parts = << >>)) =>
        /\ ~result.raised
        /\ result.steps = << >>
        /\ result.elements = << >>

\* a content with an empty part list on an event whose state_delta is empty
EmptyPartListConverted ==
    /\ result.called
    /\ ~Truthy(event.error_code)
    /\ event.content.present /\ event.content.hasParts
    /\ event.content.parts = << >>
    /\ event.actions.present /\ event.actions.state_delta = Delta({})
    /\ result.steps = << >>

RECURSIVE ConvertEventsLoopDedup(_, _)
ConvertEventsLoopDedup(s, k) ==
    IF k = 0 THEN Returned(<< >>, << >>)
    ELSE LET sofar == ConvertEventsLoopDedup(s, k - 1)
             one == ConvertEventToChainlit(s.id, s.events[k])
         IN IF sofar.raised \/ one.raised THEN Raised
            ELSE IF \E m \in 1..(k - 1) : s.events[m].id = s.events[k].id
            THEN sofar
            ELSE Returned(sofar.steps \o one.steps, sofar.elements \o one.elements)

\* steps and elements after the first k iterations of "for event in
\* session.events"; an exception of the normalizer ends the loop
RECURSIVE ConvertEventsLoop(_, _)
ConvertEventsLoop(s, k) ==
    IF k = 0 THEN Returned(<< >>, << >>)
    ELSE LET sofar == ConvertEventsLoop(s, k - 1)
             one == ConvertEventToChainlit(s.id, s.events[k])
         IN IF sofar.raised \/ one.raised THEN Raised
            ELSE Returned(sofar.steps \o one.steps, sofar.elements \o one.elements)

ConvertEventsToChainlit(s) == ConvertEventsLoop(s, Len(s.events))

\* the events a session of the model is made of
SessionContents ==
    {NoContent,
     Content("user", <<Part("A", NoCall, NoResponse)>>),
     Content("model", <<Part(None, Call("f", "x", "c1"), NoResponse),
                        Part("B", NoCall, Response("c1", "R"))>>),
     Content("model", <<Part(None, NoCall, Response("c1", "R"))>>)}

SessionEvents ==
    {Event(i, <<None, None, NoMetadata>>, c, a) :
        i \in {"e1", "e2"}, c \in SessionContents,
        a \in {Actions(Delta({})), Actions(Delta({"k"}))}}
    \cup {Event(i, <<"E", "boom", NoMetadata>>, NoContent, Actions(Delta({}))) :
        i \in {"e1", "e2"}}

IdleEvent == Event("e1", <<None, None, NoMetadata>>, NoContent, Actions(Delta({})))

InitThread ==
    /\ AuxIdle
    /\ session = NoSession
    /\ thread = NoThread
    /\ event = IdleEvent
    /\ result = NoResult
    /\ sessions = {}
    /\ clock = 0
    /\ page = NoPage

\* the agent run appends an event to the session
AppendEvent ==
    /\ ~thread.called
    /\ Len(session.events) < MaxEvents
    /\ \E e \in SessionEvents :
         session' = [session EXCEPT !.events = Append(@, e)]
    /\ UNCHANGED <<event, result, thread, sessions, clock, page, aux>>

\* the thread of the session is assembled
ConvertEvents ==
    /\ ~thread.called
    /\ thread' = ConvertEventsToChainlit(session)
    /\ UNCHANGED <<event, result, session, sessions, clock, page, aux>>

NextThread == AppendEvent \/ ConvertEvents

SpecThread == InitThread /\ [][NextThread]_vars

\* the steps of the i-th event of the session, normalized on its own
StepsOf(i) == ConvertEventToChainlit(session.id, session.events[i]).steps
ElementsOf(i) == ConvertEventToChainlit(session.id, session.events[i]).elements

\* the number of steps of the events before the i-th
RECURSIVE StepsBefore(_)
StepsBefore(i) == IF i <= 1 THEN 0 ELSE StepsBefore(i - 1) + Len(StepsOf(i - 1))

\* C8: the assembler returns normalize(E1) ++ ... ++ normalize(Ek): the steps
\* of each event stand together, in the event's order, after the steps of all
\* earlier events, and none is dropped, merged or deduplicated.
AssembleIsConcatenation ==
    thread.called =>
        LET k == Len(session.events)
        IN /\ ~thread.raised
           /\ Len(thread.steps) = StepsBefore(k + 1)
           /\ \A i \in 1..k : \A p \in 1..Len(StepsOf(i)) :
                thread.steps[StepsBefore(i) + p] = StepsOf(i)[p]
           /\ thread.elements = << >>
           /\ \A i \in 1..k : ElementsOf(i) = << >>

\* a session that holds the same event twice: its steps appear twice
SameEventTwiceAssembled ==
    /\ thread.called
    /\ Len(session.events) = 2
    /\ session.events[1] = session.events[2]
    /\ Len(StepsOf(1)) = 3
    /\ Len(thread.steps) = 6
    /\ thread.steps[1].id = thread.steps[4].id

(***************************************************************************)
(* The thread listing: list_threads over the sessions table                *)
(* A thread id is the sequence of its characters; a search text likewise,  *)
(* with << >> for a search that is None or empty. A row of the sessions    *)
(* table is [id, user_id, create_time, state].                             *)
(***************************************************************************)
SessionIds == {<<"a">>, <<"A", "b">>, <<"b">>, <<"c">>}
UserIds == {"u1", "u2"}
NoText == << >>

Row(id, user_id, create_time) ==
    [id |-> id, user_id |-> user_id, create_time |-> create_time, state |-> "{}"]

\* the filter and pagination arguments of one list_threads call
Request(first, cursor, search, userId) ==
    [first |-> first, cursor |-> cursor, search |-> search, userId |-> userId]

Requests ==
    {Request(n, c, t, u) : n \in 1..MaxFirst, c \in SessionIds \cup {NoText},
                           t \in {NoText, <<"a">>, <<"b">>}, u \in UserIds \cup {None}}

\* (SELECT create_time FROM sessions WHERE id = ?): the set of its values,
\* empty when the subquery yields NULL
CursorTimes(table, cursor) == {r.create_time : r \in {x \in table : x.id = cursor}}

\* the WHERE clause without the search condition
WhereClause(table, req, r) ==
    /\ Truthy(req.userId) => r.user_id = req.userId
    /\ req.cursor # NoText =>
         \E t \in CursorTimes(table, req.cursor) : r.create_time < t

\* the orders ORDER BY s.create_time DESC may give the rows: rows of equal
\* create_time come in an order the statement does not fix
OrderedByCreateTimeDesc(rows) ==
    {o \in [1..Cardinality(rows) -> rows] :
        /\ \A i, j \in 1..Cardinality(rows) : i # j => o[i] # o[j]
        /\ \A i, j \in 1..Cardinality(rows) : i < j =>
             o[i].create_time >= o[j].create_time}

Limit(o, n) == SubSeq(o, 1, IF Len(o) < n THEN Len(o) ELSE n)

\* the results execute_query may return for the statement of list_threads.
\* The database is SQLite (aiosqlite.connect), whose SQL has no ILIKE
\* operator: a statement holding "s.id ILIKE ?" is a syntax error, logged
\* and raised again. The empty set stands for that exception.
ExecuteListQuery(table, req) ==
    IF req.search # NoText
    THEN {}
    ELSE {Limit(o, req.first + 1) :
            o \in OrderedByCreateTimeDesc({r \in table : WhereClause(table, req, r)})}

ThreadDict(r) ==
    [id |-> r.id, createdAt |-> r.create_time, name |-> r.id,
     userId |-> IF Truthy(r.user_id) THEN r.user_id ELSE None,
     userIdentifier |-> r.user_id, metadata |-> {},
     steps |-> << >>, elements |-> << >>, tags |-> << >>]

PageRaised(req) ==
    [called |-> TRUE, request |-> req, raised |-> TRUE, data |-> << >>,
     hasNextPage |-> FALSE, startCursor |-> NoText, endCursor |-> NoText]

\* the PaginatedResponse built from the fetched rows; a cursor of None is
\* NoText
PaginatedResponse(req, results) ==
    LET has_next_page == Len(results) > req.first
        threads == IF has_next_page THEN SubSeq(results, 1, Len(results) - 1)
                   ELSE results
        thread_dicts == [i \in 1..Len(threads) |-> ThreadDict(threads[i])]
    IN [called |-> TRUE, request |-> req, raised |-> FALSE,
        data |-> thread_dicts,
        hasNextPage |-> has_next_page,
        startCursor |-> IF thread_dicts # << >> THEN thread_dicts[1].id ELSE NoText,
        endCursor |-> IF thread_dicts # << >>
                      THEN thread_dicts[Len(thread_dicts)].id ELSE NoText]

InitList ==
    /\ AuxIdle
    /\ sessions = {}
    /\ clock = 0
    /\ page = NoPage
    /\ event = IdleEvent
    /\ result = NoResult
    /\ session = NoSession
    /\ thread = NoThread

\* a chat starts: the session service inserts a row, stamped with the time
\* of the insert
CreateSession ==
    /\ ~page.called
    /\ Cardinality(sessions) < MaxSessions
    /\ \E id \in SessionIds, u \in UserIds, now \in clock..MaxClock :
         /\ \A r \in sessions : r.id # id
         /\ sessions' = sessions \cup {Row(id, u, now)}
         /\ clock' = now
    /\ UNCHANGED <<event, result, session, thread, page, aux>>

\* list_threads(pagination, filters)
ListThreads ==
    /\ ~page.called
    /\ \E req \in Requests :
         LET outcomes == ExecuteListQuery(sessions, req)
         IN IF outcomes = {}
            THEN page' = PageRaised(req)
            ELSE \E results \in outcomes : page' = PaginatedResponse(req, results)
    /\ UNCHANGED <<event, result, session, thread, sessions, clock, aux>>

NextList == CreateSession \/ ListThreads

SpecList == InitList /\ [][NextList]_vars

(***************************************************************************)
(* Vocabulary of the claims about list_threads                             *)
(***************************************************************************)
Lower(c) == IF c = "A" THEN "a" ELSE IF c = "B" THEN "b" ELSE c

\* id contains text as a case-insensitive substring
ContainsIgnoringCase(id, text) ==
    \E k \in 0..(Len(id) - Len(text)) :
        \A m \in 1..Len(text) : Lower(id[k + m]) = Lower(text[m])

\* the session satisfies every active condition of the request
Satisfies(r, req) ==
    /\ req.search # NoText => ContainsIgnoringCase(r.id, req.search)
    /\ req.userId \notin {None, ""} => r.user_id = req.userId
    /\ req.cursor # NoText =>
         \E c \in sessions : c.id = req.cursor /\ r.create_time < c.create_time

Matching(req) == {r \in sessions : Satisfies(r, req)}

\* the page is what pagination over the matching sessions asks for
PageShape ==
    LET req == page.request
        n == Len(page.data)
    IN /\ ~page.raised
       /\ n <= req.first
       /\ page.hasNextPage <=> Cardinality(Matching(req)) >= req.first + 1
       /\ page.hasNextPage => n = req.first
       /\ ~page.hasNextPage => n = Cardinality(Matching(req))
       /\ IF n = 0
          THEN page.startCursor = NoText /\ page.endCursor = NoText
          ELSE page.startCursor = page.data[1].id /\ page.endCursor = page.data[n].id

\* the page holds the first threads, newest first, of the matching sessions
PageContent ==
    LET req == page.request
        n == Len(page.data)
        m == Cardinality(Matching(req))
    IN /\ ~page.raised
       /\ n = (IF m < req.first THEN m ELSE req.first)
       /\ \A i \in 1..n : \E r \in Matching(req) :
            page.data[i].id = r.id /\ page.data[i].createdAt = r.create_time
       /\ \A i, j \in 1..n : i < j =>
            /\ page.data[i].id # page.data[j].id
            /\ page.data[i].createdAt >= page.data[j].createdAt
       /\ \A r \in Matching(req) :
            (\A i \in 1..n : page.data[i].id # r.id) =>
                \A i \in 1..n : page.data[i].createdAt >= r.create_time

\* C9: for every store, page size, cursor and filters list_threads returns a
\* page of at most N threads, hasNextPage true exactly when N+1 rows were
\* there to fetch, startCursor and endCursor the first and last id, both none
\* on an empty page, which is a result and not a failure.
ListReturnsPageOfAtMostN ==
    page.called => PageShape

\* C10: the page holds exactly the first N, newest first, of the sessions
\* whose id contains the search text ignoring case, whose user is the userId
\* filter and whose creation time is before that of the cursor's session.
ListReturnsFirstMatchingNewestFirst ==
    page.called => PageContent

\* the same two statements for the calls that pass no search text
ListWithoutSearchShape ==
    (page.called /\ page.request.search = NoText) => PageShape

ListWithoutSearchContent ==
    (page.called /\ page.request.search = NoText) => PageContent

\* every call that passes a search text fails
ListWithSearchRaises ==
    (page.called /\ page.request.search # NoText) => page.raised

(***************************************************************************)
(* The session store: the sessions and events tables                       *)
(***************************************************************************)
APP_NAME == "game_design_team_app"

\* the ids of the sessions the store starts with
StoreIds == {<<"a">>, <<"b">>}

\* the n-th event row of a session
EventRow(session_id, n, body) == [session_id |-> session_id, n |-> n, body |-> body]

EventRowsOf(etable, id) == {r \in etable : r.session_id = id}

\* the events of a session in the order they were appended
EventsInOrder(etable, id) ==
    LET rows == EventRowsOf(etable, id)
        ns == {r.n : r \in rows}
        Rank(r) == Cardinality({m \in ns : m <= r.n})
    IN [i \in 1..Cardinality(rows) |-> (CHOOSE r \in rows : Rank(r) = i).body]

\* session_service.get_session(app_name, user_id, session_id)
NoStoredSession == [present |-> FALSE, id |-> << >>, events |-> << >>]

\* get_session that loads the session without its events
GetSessionNoEvents(stable, etable, app_name, user_id, session_id) ==
    IF app_name = APP_NAME
       /\ \E r \in stable : r.id = session_id /\ r.user_id = user_id
    THEN [present |-> TRUE, id |-> session_id, events |-> << >>]
    ELSE NoStoredSession

GetSession(stable, etable, app_name, user_id, session_id) ==
    IF app_name = APP_NAME
       /\ \E r \in stable : r.id = session_id /\ r.user_id = user_id
    THEN [present |-> TRUE, id |-> session_id,
          events |-> EventsInOrder(etable, session_id)]
    ELSE NoStoredSession

\* delete_session that leaves the event rows of the session behind
DeleteSessionKeepEvents(stable, etable, app_name, user_id, session_id) ==
    LET hit == {r \in stable : app_name = APP_NAME /\ r.id = session_id
                               /\ r.user_id = user_id}
    IN [sessions |-> stable \ hit, events |-> etable, raised |-> FALSE]

\* delete_session that fails when there is no such session
DeleteSessionStrict(stable, etable, app_name, user_id, session_id) ==
    LET hit == {r \in stable : app_name = APP_NAME /\ r.id = session_id
                               /\ r.user_id = user_id}
    IN [sessions |-> stable \ hit,
        events |-> {e \in etable : \A r \in hit : e.session_id # r.id},
        raised |-> hit = {}]

\* session_service.delete_session(app_name, user_id, session_id): the
\* session row goes and its event rows with it; nothing happens, and nothing
\* is raised, when there is no such session
DeleteSession(stable, etable, app_name, user_id, session_id) ==
    LET hit == {r \in stable : app_name = APP_NAME /\ r.id = session_id
                               /\ r.user_id = user_id}
    IN [sessions |-> stable \ hit,
        events |-> {e \in etable : \A r \in hit : e.session_id # r.id},
        raised |-> FALSE]

\* a store of at most one session per id of StoreIds, each with at most
\* MaxEvents events
StoreInit(users, times, bodies) ==
    \E present \in SUBSET StoreIds :
      \E owner \in [present -> users], time \in [present -> times],
         evs \in [present -> SeqsUpTo(bodies, MaxEvents)] :
        /\ sessions = {Row(id, owner[id], time[id]) : id \in present}
        /\ events = UNION {{EventRow(id, n, evs[id][n]) : n \in 1..Len(evs[id])} :
                            id \in present}

(***************************************************************************)
(* get_thread_author, delete_thread and get_thread                         *)
(***************************************************************************)
Ret(op, arg, status, value) == [op |-> op, arg |-> arg, status |-> status, value |-> value]

\* get_thread_author that answers None for a thread it does not find
GetThreadAuthorOrNone(stable, thread_id) ==
    LET results == {r \in stable : r.id = thread_id}
    IN IF results = {} THEN {[raised |-> FALSE, value |-> None]}
       ELSE {[raised |-> FALSE, value |-> r.user_id] : r \in results}

\* get_thread_author(thread_id): what it can give, results[0] being any row
\* of the query's answer
GetThreadAuthor(stable, thread_id) ==
    LET results == {r \in stable : r.id = thread_id}
    IN IF results = {} THEN {[raised |-> TRUE, value |-> "not_found"]}
       ELSE {[raised |-> FALSE, value |-> r.user_id] : r \in results}

\* a call of get_thread_author on its own; a call that returns None has the
\* status "returned_none"
CallGetThreadAuthor ==
    /\ ret.status # "pending"
    /\ \E t \in StoreIds : \E a \in GetThreadAuthor(sessions, t) :
         ret' = Ret("get_thread_author", t,
                    IF a.raised THEN "raised" ELSE "returned", a.value)
    /\ UNCHANGED <<event, result, session, thread, sessions, clock, page>>
    /\ UNCHANGED <<events, calls, manager, proc, walk, chat, pipeline>>

\* delete_thread up to the return of get_thread_author
DeleteThreadLookup(c) ==
    /\ calls[c].pc = "idle"
    /\ \E t \in StoreIds : \E a \in GetThreadAuthor(sessions, t) :
         calls' = [calls EXCEPT ![c] =
            IF a.raised
            THEN [pc |-> "done", thread_id |-> t, author |-> None,
                  outcome |-> a.value, delegated |-> FALSE]
            ELSE [pc |-> "looked_up", thread_id |-> t, author |-> a.value,
                  outcome |-> "none", delegated |-> FALSE]]
    /\ UNCHANGED <<event, result, session, thread, sessions, clock, page>>
    /\ UNCHANGED <<events, ret, manager, proc, walk, chat, pipeline>>

\* delete_thread from there: session_service.delete_session
DeleteThreadDelegate(c) ==
    /\ calls[c].pc = "looked_up"
    /\ LET d == DeleteSession(sessions, events, APP_NAME, calls[c].author,
                              calls[c].thread_id)
       IN /\ sessions' = d.sessions
          /\ events' = d.events
          /\ calls' = [calls EXCEPT ![c] =
                [@ EXCEPT !.pc = "done", !.delegated = TRUE,
                          !.outcome = IF d.raised THEN "delete_failed" ELSE "ok"]]
    /\ UNCHANGED <<event, result, session, thread, clock, page>>
    /\ UNCHANGED <<ret, manager, proc, walk, chat, pipeline>>

\* the thread get_thread returns
ThreadOf(r, steps, elements) ==
    [id |-> r.id, createdAt |-> r.create_time, name |-> r.id,
     userId |-> IF Truthy(r.user_id) THEN r.user_id ELSE None,
     userIdentifier |-> IF Truthy(r.user_id) THEN r.user_id ELSE None,
     metadata |-> {}, steps |-> steps, elements |-> elements, tags |-> << >>]

\* get_thread up to the query's answer: None without a row, an error for a
\* row without user_id
GetThreadQuery ==
    /\ ret.status # "pending"
    /\ \E t \in StoreIds :
         LET results == {r \in sessions : r.id = t}
         IN IF results = {}
            THEN ret' = Ret("get_thread", t, "returned_none", None)
            ELSE \E r \in results :
                   ret' = IF ~Truthy(r.user_id)
                          THEN Ret("get_thread", t, "raised", "no_user_id")
                          ELSE Ret("get_thread", t, "pending", r)
    /\ UNCHANGED <<event, result, session, thread, sessions, clock, page>>
    /\ UNCHANGED <<events, calls, manager, proc, walk, chat, pipeline>>

\* get_thread from there: get_session, then the thread assembler
GetThreadLoad ==
    /\ ret.op = "get_thread" /\ ret.status = "pending"
    /\ LET r == ret.value
           s == GetSession(sessions, events, APP_NAME, r.user_id, ret.arg)
           conv == ConvertEventsToChainlit(s)
       IN ret' = IF ~s.present
                 THEN Ret("get_thread", ret.arg, "raised", "no_session")
                 ELSE IF conv.raised
                 THEN Ret("get_thread", ret.arg, "raised", "convert")
                 ELSE Ret("get_thread", ret.arg, "returned",
                          ThreadOf(r, conv.steps, conv.elements))
    /\ UNCHANGED <<event, result, session, thread, sessions, clock, page>>
    /\ UNCHANGED <<events, calls, manager, proc, walk, chat, pipeline>>

(***************************************************************************)
(* The database manager: delete_session and delete_user_data               *)
(***************************************************************************)
\* DELETE FROM table WHERE column = value
Delete(table, column, value) == [table |-> table, column |-> column, value |-> value]

\* the rows a fetchall() can give, in any order
Orderings(S) == {q \in [1..Cardinality(S) -> S] : \A i, j \in DOMAIN q : i # j => q[i] # q[j]}

\* delete_session that removes the session row first
DeleteSessionParentFirst(session_id) ==
    <<Delete("sessions", "id", session_id), Delete("events", "session_id", session_id)>>

\* the statements of delete_session(session_id), in the order it runs them
DeleteSessionStatements(session_id) ==
    <<Delete("events", "session_id", session_id), Delete("sessions", "id", session_id)>>

\* the statements of delete_user_data(user_id) after its SELECT gave
\* session_ids
DeleteUserDataStatements(user_id, session_ids) ==
    [i \in 1..Len(session_ids) |-> Delete("events", "session_id", session_ids[i])]
    \o <<Delete("user_states", "user_id", user_id),
         Delete("sessions", "user_id", user_id)>>

\* the sessions table after a statement
SessionsAfter(stable, stmt) ==
    IF stmt.table # "sessions" THEN stable
    ELSE IF stmt.column = "id" THEN {r \in stable : r.id # stmt.value}
    ELSE {r \in stable : r.user_id # stmt.value}

\* the events table after a statement
EventsAfter(etable, stmt) ==
    IF stmt.table # "events" THEN etable
    ELSE {e \in etable : e.session_id # stmt.value}

\* a delete under way: the statements it has still to run and the rowcounts it
\* has added up
Task(pc, name, arg, stmts) == [pc |-> pc, name |-> name, arg |-> arg, stmts |-> stmts, events_deleted |-> 0, sessions_deleted |-> 0]

\* delete_session(session_id) is called
ManagerDeleteSession ==
    /\ manager.pc = "idle"
    /\ \E t \in StoreIds :
         manager' = Task("running", "delete_session", t, DeleteSessionStatements(t))
    /\ UNCHANGED <<event, result, session, thread, sessions, clock, page>>
    /\ UNCHANGED <<events, calls, ret, proc, walk, chat, pipeline>>

\* delete_user_data(user_id) is called and runs its SELECT
ManagerDeleteUserData ==
    /\ manager.pc = "idle"
    /\ \E u \in UserIds :
         \E session_ids \in Orderings({r.id : r \in {x \in sessions : x.user_id = u}}) :
           manager' = Task("running", "delete_user_data", u,
                           DeleteUserDataStatements(u, session_ids))
    /\ UNCHANGED <<event, result, session, thread, sessions, clock, page>>
    /\ UNCHANGED <<events, calls, ret, proc, walk, chat, pipeline>>

\* the next cursor.execute of the delete under way
ManagerExecute ==
    /\ manager.pc = "running"
    /\ manager.stmts # << >>
    /\ sessions' = SessionsAfter(sessions, Head(manager.stmts))
    /\ events' = EventsAfter(events, Head(manager.stmts))
    /\ manager' = [manager EXCEPT
            !.stmts = Tail(@),
            !.events_deleted = @ + Cardinality(events) - Cardinality(events'),
            !.sessions_deleted = @ + Cardinality(sessions) - Cardinality(sessions')]
    /\ UNCHANGED <<event, result, session, thread, clock, page>>
    /\ UNCHANGED <<calls, ret, proc, walk, chat, pipeline>>

\* conn.commit() and the return
ManagerCommit ==
    /\ manager.pc = "running"
    /\ manager.stmts = << >>
    /\ manager' = [manager EXCEPT !.pc = "done"]
    /\ UNCHANGED <<event, result, session, thread, sessions, clock, page>>
    /\ UNCHANGED <<events, calls, ret, proc, walk, chat, pipeline>>

\* the manager's process dies between two statements, the tables staying as
\* its statements left them
ManagerCrash ==
    /\ manager.pc = "running"
    /\ manager' = [manager EXCEPT !.pc = "crashed"]
    /\ UNCHANGED <<event, result, session, thread, sessions, clock, page>>
    /\ UNCHANGED <<events, calls, ret, proc, walk, chat, pipeline>>

(***************************************************************************)
(* Deleting threads: the data layer's callers and the manager on one store *)
(***************************************************************************)
DeleteBodies == {Event("e1", <<None, None, NoMetadata>>, NoContent, Actions(Delta({})))}

InitDelete ==
    /\ StoreInit(UserIds, {0}, DeleteBodies)
    /\ clock = 0
    /\ calls = [c \in Callers |-> IdleCall]
    /\ ret = NoRet
    /\ manager = IdleManager
    /\ proc = IdleProc
    /\ walk = IdleWalk
    /\ chat = IdleChat
    /\ pipeline = IdlePipeline
    /\ page = NoPage
    /\ event = IdleEvent
    /\ result = NoResult
    /\ session = NoSession
    /\ thread = NoThread

NextDelete ==
    \/ \E c \in Callers : DeleteThreadLookup(c)
    \/ \E c \in Callers : DeleteThreadDelegate(c)
    \/ CallGetThreadAuthor
    \/ GetThreadQuery
    \/ GetThreadLoad
    \/ ManagerDeleteSession
    \/ ManagerDeleteUserData
    \/ ManagerExecute
    \/ ManagerCommit
    \/ ManagerCrash

SpecDelete == InitDelete /\ [][NextDelete]_vars

(***************************************************************************)
(* Vocabulary of the claims about deleting threads                         *)
(***************************************************************************)
\* no row of thread t is in the tables
Gone(stable, etable, t) ==
    /\ \A r \in stable : r.id # t
    /\ \A e \in etable : e.session_id # t

\* the rows of the threads other than t are the same before and after a step
OthersUnchanged(t) ==
    /\ {r \in sessions' : r.id # t} = {r \in sessions : r.id # t}
    /\ {e \in events' : e.session_id # t} = {e \in events : e.session_id # t}

StoreUnchanged == sessions' = sessions /\ events' = events

\* the step is a call of op made on thread t, from start to return
IsCall(op, t) ==
    /\ ret' # ret
    /\ ret.status # "pending"
    /\ ret'.op = op
    /\ ret'.arg = t

\* C11: when delete_thread(t) completes, no session row and no event row of t
\* remains and the rows of the other sessions are what they were; a
\* get_thread(t) made after it returns None and a get_thread_author(t) made
\* after it raises the not-found error.
DeleteThreadRemovesThread ==
    [][\A c \in Callers :
         /\ (calls[c].pc = "looked_up" /\ calls'[c].pc = "done") =>
              /\ Gone(sessions', events', calls[c].thread_id)
              /\ OthersUnchanged(calls[c].thread_id)
         /\ (calls[c].pc = "done" /\ calls[c].outcome = "ok") =>
              /\ IsCall("get_thread", calls[c].thread_id) =>
                   ret'.status = "returned_none"
              /\ IsCall("get_thread_author", calls[c].thread_id) =>
                   ret'.status = "raised" /\ ret'.value = "not_found"]_vars

\* a delete_thread has deleted its thread, the manager never ran, a
\* get_thread of that thread has returned None, and a session with events is
\* still there
ThreadDeletedThenFetched ==
    \E c \in Callers :
      /\ calls[c].pc = "done" /\ calls[c].outcome = "ok"
      /\ manager.pc = "idle"
      /\ ret.op = "get_thread" /\ ret.arg = calls[c].thread_id
      /\ ret.status = "returned_none"
      /\ \E r \in sessions : EventRowsOf(events, r.id) # {}

\* C12: however two delete_thread calls, or a delete_thread and the
\* manager's delete, interleave, a call that has ended leaves its thread
\* without rows, a step of a call changes no row of another thread, and a
\* call ends either well or with the not-found error of the author lookup,
\* raised before the session store was asked to delete.
RacingDeletesLeaveThreadDeleted ==
    [][\A c \in Callers :
         /\ calls'[c].pc = "done" =>
              /\ calls'[c].outcome \in {"ok", "not_found"}
              /\ calls'[c].outcome = "not_found" => ~calls'[c].delegated
              /\ Gone(sessions', events', calls'[c].thread_id)
         /\ calls'[c] # calls[c] => OthersUnchanged(calls'[c].thread_id)]_vars

\* both calls looked the same thread up before either deleted it, and both
\* have ended, another thread being still there
TwoDeletesRaced ==
    /\ calls[1].pc = "done" /\ calls[2].pc = "done"
    /\ calls[1].thread_id = calls[2].thread_id
    /\ calls[1].delegated /\ calls[2].delegated
    /\ sessions # {}

\* a call found its thread already deleted by the other
DeleteLostTheRace ==
    /\ calls[1].pc = "done" /\ calls[2].pc = "done"
    /\ calls[1].thread_id = calls[2].thread_id
    /\ calls[1].outcome = "ok" /\ calls[2].outcome = "not_found"

\* C13: get_thread_author(t) returns the user_id of the session row of id t
\* and raises the not-found error when there is none; a delete_thread(t) on a
\* thread without session row ends with that error, the session store's
\* delete not called and the tables as they were.
AuthorLookupFailsBeforeDelete ==
    [][/\ \A t \in StoreIds : IsCall("get_thread_author", t) =>
            /\ StoreUnchanged
            /\ IF \A r \in sessions : r.id # t
               THEN ret'.status = "raised" /\ ret'.value = "not_found"
               ELSE /\ ret'.status = "returned"
                    /\ \E r \in sessions : r.id = t /\ r.user_id = ret'.value
       /\ \A c \in Callers :
            /\ (calls[c].pc = "idle" /\ calls'[c].pc # "idle"
                /\ \A r \in sessions : r.id # calls'[c].thread_id) =>
                 /\ calls'[c].pc = "done"
                 /\ calls'[c].outcome = "not_found"
                 /\ ~calls'[c].delegated
                 /\ StoreUnchanged
            /\ (calls[c].pc = "idle" /\ calls'[c].pc = "looked_up") =>
                 \E r \in sessions : r.id = calls'[c].thread_id
                                     /\ r.user_id = calls'[c].author]_vars

\* a delete_thread has ended on the lookup's error and a get_thread_author
\* has raised it, in a store that has a session
LookupRaisedNotFound ==
    /\ \E c \in Callers : calls[c].pc = "done" /\ calls[c].outcome = "not_found"
    /\ ret.op = "get_thread_author" /\ ret.status = "raised"
    /\ sessions # {}

ReadUsers == {"u1", ""}

PersistedUser(id, identifier, createdAt) ==
    [id |-> id, identifier |-> identifier, createdAt |-> createdAt, metadata |-> {}]

\* get_user that takes the create_time of any one of the user's sessions
GetUserAnyRow(stable, identifier) ==
    LET owned == {r \in stable : r.user_id = identifier}
    IN IF owned = {} THEN {Ret("get_user", identifier, "returned_none", None)}
       ELSE {Ret("get_user", identifier, "returned",
                 PersistedUser(identifier, identifier, r.create_time)) : r \in owned}

\* get_user(identifier): the one row of SELECT user_id, MIN(create_time) ...
\* WHERE user_id = ? GROUP BY user_id, or None when the query gives no row
GetUser(stable, identifier) ==
    LET owned == {r \in stable : r.user_id = identifier}
        rows == {[user_id |-> identifier,
                    created_at |-> CHOOSE t \in {r.create_time : r \in owned} :
                                     \A r \in owned : t <= r.create_time] :
                   x \in IF owned = {} THEN {} ELSE {identifier}}
    IN IF rows = {} THEN {Ret("get_user", identifier, "returned_none", None)}
       ELSE {Ret("get_user", identifier, "returned",
                 PersistedUser(row.user_id, row.user_id, row.created_at)) :
             row \in rows}

CallGetUser ==
    /\ ret.status # "pending"
    /\ \E u \in UserIds \cup ReadUsers : ret' \in GetUser(sessions, u)
    /\ UNCHANGED <<event, result, session, thread, sessions, clock, page>>
    /\ UNCHANGED <<events, calls, manager, proc, walk, chat, pipeline>>

\* the entry points that change users, feedback, elements, steps and thread
\* metadata
MutationOps ==
    {"create_user", "upsert_feedback", "delete_feedback", "create_element",
     "delete_element", "create_step", "update_step", "delete_step",
     "update_thread"}

\* what uuid.uuid4() can give
Uuids == {"uuid1", "uuid2"}

\* what a mutation entry point returns: create_user a user record with a
\* fresh id, upsert_feedback the feedback's id or a fresh one, delete_feedback
\* True, the others None
MutationReturns(op, arg, now) ==
    IF op = "create_user"
    THEN {Ret(op, arg, "returned", PersistedUser(id, arg, now)) : id \in Uuids}
    ELSE IF op = "upsert_feedback"
    THEN IF arg # "" THEN {Ret(op, arg, "returned", arg)}
         ELSE {Ret(op, arg, "returned", id) : id \in Uuids}
    ELSE IF op = "delete_feedback"
    THEN {Ret(op, arg, "returned", TRUE)}
    ELSE {Ret(op, arg, "returned_none", None)}

\* a delete_step that deletes the event rows of the session that has the
\* step's id
MutationDeletesEvents(op, arg, stable, etable) ==
    [sessions |-> stable,
     events |-> IF op = "delete_step"
                THEN {e \in etable : e.session_id # <<arg>>} ELSE etable]

\* the tables after the body of a mutation entry point: none of the nine
\* touches them
MutationEffect(op, arg, stable, etable) ==
    [sessions |-> stable, events |-> etable]

\* a call of one of the mutation entry points; arg is the user's identifier,
\* the feedback's id, or the id of the element, step or thread
CallMutation ==
    /\ ret.status # "pending"
    /\ \E op \in MutationOps, arg \in {"a", ""} :
         /\ ret' \in MutationReturns(op, arg, clock)
         /\ sessions' = MutationEffect(op, arg, sessions, events).sessions
         /\ events' = MutationEffect(op, arg, sessions, events).events
    /\ UNCHANGED <<event, result, session, thread, clock, page>>
    /\ UNCHANGED <<calls, manager, proc, walk, chat, pipeline>>

(***************************************************************************)
(* Reading the store: get_thread, get_user and the mutation entry points,  *)
(* with delete_thread calls under way                                      *)
(***************************************************************************)
\* the event of the store's sessions: a call, its response and a text
ReadBodies ==
    {Event("e1", <<None, None, NoMetadata>>,
           Content("model", <<Part(None, Call("f", "x", "c1"), NoResponse),
                              Part("B", NoCall, Response("c1", "R"))>>),
           Actions(Delta({})))}

\* the delete_thread call that runs beside the reads
ReadCallers == {1}

InitRead ==
    /\ StoreInit(ReadUsers, {0, MaxClock}, ReadBodies)
    /\ clock = MaxClock
    /\ calls = [c \in Callers |-> IdleCall]
    /\ ret = NoRet
    /\ manager = IdleManager
    /\ proc = IdleProc
    /\ walk = IdleWalk
    /\ chat = IdleChat
    /\ pipeline = IdlePipeline
    /\ page = NoPage
    /\ event = IdleEvent
    /\ result = NoResult
    /\ session = NoSession
    /\ thread = NoThread

NextRead ==
    \/ GetThreadQuery
    \/ GetThreadLoad
    \/ CallGetUser
    \/ CallMutation
    \/ \E c \in ReadCallers : DeleteThreadLookup(c)
    \/ \E c \in ReadCallers : DeleteThreadDelegate(c)

SpecRead == InitRead /\ [][NextRead]_vars

(***************************************************************************)
(* Vocabulary of the claims about reading the store                        *)
(***************************************************************************)
\* the step is a call of one of the entry points ops, from start to return
IsCallOf(ops) ==
    /\ ret'.op \in ops
    /\ ret.status # "pending"
    /\ calls' = calls

\* what the assembler gives for the events thread t has in the store
AssembledNow(t) ==
    ConvertEventsToChainlit([id |-> t, events |-> EventsInOrder(events, t)])

\* what get_thread(t) gives on a store nothing else writes to
GetThreadOn(stable, etable, t) ==
    LET rows == {r \in stable : r.id = t}
        conv == ConvertEventsToChainlit([id |-> t, events |-> EventsInOrder(etable, t)])
    IN IF rows = {} THEN {"none"}
       ELSE {IF ~Truthy(r.user_id) \/ conv.raised THEN <<"raised">>
             ELSE <<r, conv.steps, conv.elements>> : r \in rows}

\* the list_threads call for a first page of all threads
FirstPages == {Request(MaxFirst, NoText, NoText, None)}

\* C14: get_thread(t) returns None, raising nothing, when no session row has
\* id t, and raises when the row has no user_id; otherwise it asks the
\* session store for (APP_NAME, user_id, t), raises when there is no such
\* session, and else returns the thread of id t whose steps and elements are
\* the assembler's output over the session's events.
GetThreadOutcomes ==
    [][\A t \in StoreIds :
         /\ IsCall("get_thread", t) =>
              LET rows == {r \in sessions : r.id = t}
              IN /\ StoreUnchanged
                 /\ rows = {} => ret'.status = "returned_none"
                 /\ (rows # {} /\ \A r \in rows : ~Truthy(r.user_id)) =>
                      ret'.status = "raised"
                 /\ (rows # {} /\ \A r \in rows : Truthy(r.user_id)) =>
                      ret'.status = "pending"
         /\ (ret.op = "get_thread" /\ ret.status = "pending" /\ ret.arg = t
             /\ ret' # ret) =>
              /\ StoreUnchanged
              /\ IF \A r \in sessions : ~(r.id = t /\ r.user_id = ret.value.user_id)
                 THEN ret'.status = "raised"
                 ELSE /\ ret'.status = "returned"
                      /\ ret'.value.id = t
                      /\ ret'.value.steps = AssembledNow(t).steps
                      /\ ret'.value.elements = AssembledNow(t).elements]_vars

\* get_thread has returned a thread with the steps of its events
ThreadReturnedWithSteps ==
    /\ ret.op = "get_thread" /\ ret.status = "returned"
    /\ Len(ret.value.steps) > MaxEvents

\* get_thread found the row and then no session, deleted in between
ThreadLostBetweenQueryAndLoad ==
    /\ ret.op = "get_thread" /\ ret.status = "raised"
    /\ ret.value = "no_session"

\* C15: a call of create_user, upsert_feedback, delete_feedback,
\* create_element, delete_element, create_step, update_step, delete_step or
\* update_thread leaves the sessions and events tables as they were, and so
\* get_thread and list_threads give after it what they gave before it.
MutationsLeaveStoreUnchanged ==
    [][IsCallOf(MutationOps) =>
         /\ StoreUnchanged
         /\ \A t \in StoreIds :
              GetThreadOn(sessions', events', t) = GetThreadOn(sessions, events, t)
         /\ \A req \in FirstPages :
              ExecuteListQuery(sessions', req) = ExecuteListQuery(sessions, req)]_vars

\* delete_step has been called with the id of a session that has events
DeleteStepCalledOnStoredThread ==
    /\ ret.op = "delete_step" /\ ret.arg = "a"
    /\ EventRowsOf(events, <<"a">>) # {}

\* C16: get_user(u) returns None when no session has user_id u, and else a
\* user whose id and identifier are u and whose createdAt is the least
\* create_time of the sessions of u; the tables stay as they were.
GetUserGivesEarliestSession ==
    [][IsCallOf({"get_user"}) =>
         LET u == ret'.arg
             owned == {r \in sessions : r.user_id = u}
         IN /\ StoreUnchanged
            /\ IF owned = {}
               THEN ret'.status = "returned_none"
               ELSE /\ ret'.status = "returned"
                    /\ ret'.value.id = u
                    /\ ret'.value.identifier = u
                    /\ \E r \in owned : ret'.value.createdAt = r.create_time
                    /\ \A r \in owned : ret'.value.createdAt <= r.create_time]_vars

\* get_user has returned the user of two sessions created at different times
UserOfTwoSessionsReturned ==
    /\ ret.op = "get_user" /\ ret.status = "returned"
    /\ \E r, q \in sessions :
         /\ r.user_id = ret.arg /\ q.user_id = ret.arg
         /\ r.create_time < q.create_time

(***************************************************************************)
(* The process: start-up, signals and exit                                 *)
(***************************************************************************)
\* a connection string is the sequence of its pieces, "" the empty one
SqlitePrefix == "sqlite:///"
DefaultUrl == <<SqlitePrefix, "design_team_sessions.db">>

\* os.environ with and without DB_URL
Unset == [set |-> FALSE, value |-> << >>]
SetTo(url) == [set |-> TRUE, value |-> url]
EnvValues ==
    {Unset, SetTo(<< >>), SetTo(DefaultUrl), SetTo(<<SqlitePrefix, "other.db">>),
     SetTo(<<"postgresql://", "db/adk">>)}

\* os.environ["DB_URL"] or "sqlite:///design_team_sessions.db": the
\* subscript raises KeyError for a missing key, `or` replaces the empty
\* string
ResolveUrl(env) ==
    IF ~env.set THEN [raised |-> TRUE, value |-> << >>]
    ELSE IF env.value = << >> THEN [raised |-> FALSE, value |-> DefaultUrl]
    ELSE [raised |-> FALSE, value |-> env.value]

\* database_url.replace("sqlite:///", "")
StripSqlite(url) == SelectSeq(url, LAMBDA piece : piece # SqlitePrefix)

Signals == {"SIGINT", "SIGTERM"}

\* signal.default_int_handler(sig, frame): raises KeyboardInterrupt,
\* whatever sig is
DefaultIntHandler(sig) == "KeyboardInterrupt"

\* what a signal does to a Python process that has installed no handler
\* for it
SignalDefault(sig) == IF sig = "SIGINT" THEN "KeyboardInterrupt" ELSE "terminated"

\* _signal_handler(sig, frame): _sync_cleanup(), then default_int_handler
SignalHandler(sig) == <<"cleanup", DefaultIntHandler(sig)>>

\* a process that has just been started with the environment env
Started(env) ==
    [pc |-> "import", env |-> env, layer_url |-> << >>, app_url |-> << >>,
     database_url |-> << >>, error |-> None,
     handlers |-> [sig \in Signals |-> "default"], atexit |-> 0,
     handled |-> << >>, effects |-> << >>, cleanups |-> 0]

InitProc ==
    /\ proc \in {Started(env) : env \in EnvValues}
    /\ events = {}
    /\ calls = [c \in Callers |-> IdleCall]
    /\ ret = NoRet
    /\ manager = IdleManager
    /\ walk = IdleWalk
    /\ chat = IdleChat
    /\ pipeline = IdlePipeline
    /\ sessions = {}
    /\ clock = 0
    /\ page = NoPage
    /\ event = IdleEvent
    /\ result = NoResult
    /\ session = NoSession
    /\ thread = NoThread

\* app.py imports the data-layer module, whose body resolves db_url
ImportDataLayer ==
    /\ proc.pc = "import"
    /\ LET url == ResolveUrl(proc.env)
       IN proc' = IF url.raised
                  THEN [proc EXCEPT !.pc = "failed", !.error = "KeyError"]
                  ELSE [proc EXCEPT !.pc = "app", !.layer_url = url.value]
    /\ UNCHANGED <<event, result, session, thread, sessions, clock, page>>
    /\ UNCHANGED <<events, calls, ret, manager, walk, chat, pipeline>>

\* app.py resolves its own db_url
AppResolveUrl ==
    /\ proc.pc = "app"
    /\ LET url == ResolveUrl(proc.env)
       IN proc' = IF url.raised
                  THEN [proc EXCEPT !.pc = "failed", !.error = "KeyError"]
                  ELSE [proc EXCEPT !.pc = "construct", !.app_url = url.value]
    /\ UNCHANGED <<event, result, session, thread, sessions, clock, page>>
    /\ UNCHANGED <<events, calls, ret, manager, walk, chat, pipeline>>

\* data_layer = GoogleADKDataLayer(db_url): registers _sync_cleanup for exit
\* and _signal_handler for SIGINT and SIGTERM
ConstructDataLayer ==
    /\ proc.pc = "construct"
    /\ proc' = [proc EXCEPT !.pc = "running",
                            !.database_url = StripSqlite(proc.app_url),
                            !.atexit = @ + 1,
                            !.handlers = [sig \in Signals |-> "handler"]]
    /\ UNCHANGED <<event, result, session, thread, sessions, clock, page>>
    /\ UNCHANGED <<events, calls, ret, manager, walk, chat, pipeline>>

\* the running app calls cleanup()
CallCleanup ==
    /\ proc.pc = "running"
    /\ proc.cleanups < MaxCleanups
    /\ proc' = [proc EXCEPT !.cleanups = @ + 1, !.effects = Append(@, "cleanup")]
    /\ UNCHANGED <<event, result, session, thread, sessions, clock, page>>
    /\ UNCHANGED <<events, calls, ret, manager, walk, chat, pipeline>>

\* a signal reaches the process while it starts, runs or unwinds from an
\* earlier one: the installed handler runs, or the signal's default acts
DeliverSignal ==
    /\ proc.pc \in {"import", "app", "construct", "running", "interrupted"}
    /\ Len(proc.handled) < MaxSignals
    /\ \E sig \in Signals :
         LET did == IF proc.handlers[sig] = "handler" THEN SignalHandler(sig)
                    ELSE <<SignalDefault(sig)>>
             last == did[Len(did)]
         IN proc' = [proc EXCEPT
                !.handled = Append(@, [sig |-> sig, by |-> proc.handlers[sig],
                                       did |-> did]),
                !.effects = @ \o did,
                !.pc = IF last = "terminated" THEN "killed" ELSE "interrupted"]
    /\ UNCHANGED <<event, result, session, thread, sessions, clock, page>>
    /\ UNCHANGED <<events, calls, ret, manager, walk, chat, pipeline>>

\* the interpreter exits, on its own or with the KeyboardInterrupt, and runs
\* what atexit holds
Exit ==
    /\ proc.pc \in {"running", "interrupted"}
    /\ proc' = [proc EXCEPT
           !.pc = "exited",
           !.effects = @ \o [i \in 1..proc.atexit |-> "cleanup"]]
    /\ UNCHANGED <<event, result, session, thread, sessions, clock, page>>
    /\ UNCHANGED <<events, calls, ret, manager, walk, chat, pipeline>>

NextProc ==
    \/ ImportDataLayer
    \/ AppResolveUrl
    \/ ConstructDataLayer
    \/ CallCleanup
    \/ DeliverSignal
    \/ Exit

SpecProc == InitProc /\ [][NextProc]_vars

(***************************************************************************)
(* Vocabulary of the claims about the process                              *)
(***************************************************************************)
\* the URL the environment asks for: the default when DB_URL is unset or ""
ExpectedUrl(env) == IF ~env.set \/ env.value = << >> THEN DefaultUrl ELSE env.value

UrlsResolved ==
    /\ proc.layer_url # << >> => proc.layer_url = ExpectedUrl(proc.env)
    /\ proc.app_url # << >> =>
         proc.app_url = ExpectedUrl(proc.env) /\ proc.app_url = proc.layer_url

\* C17: start-up does not fail on DB_URL: unset or empty it gives the default
\* URL, a non-empty value gives that value, and the data-layer module and the
\* app hold the same URL.
DbUrlDefaultsWhenUnsetOrEmpty ==
    /\ proc.pc # "failed"
    /\ UrlsResolved

\* the same for an environment that has DB_URL, empty or not
DbUrlDefaultsWhenEmpty ==
    proc.env.set => (proc.pc # "failed" /\ UrlsResolved)

\* without DB_URL the start-up ends in the KeyError of the first lookup
UnsetDbUrlFailsStartup ==
    (~proc.env.set /\ proc.pc \notin {"import", "interrupted", "killed", "exited"}) =>
        (proc.pc = "failed" /\ proc.error = "KeyError")

\* what the installed handler did for the i-th signal is the cleanup followed
\* by that signal's default
RedeliversDefault(i) ==
    proc.handled[i].did = <<"cleanup", SignalDefault(proc.handled[i].sig)>>

\* C18: the handler installed for SIGINT and SIGTERM runs the cleanup and
\* then what the signal does by default; the cleanup is registered for exit
\* as soon as the handler is installed, and however often it has run nothing
\* has failed.
HandlerCleansUpThenRedelivers ==
    /\ \A i \in 1..Len(proc.handled) :
         proc.handled[i].by = "handler" => RedeliversDefault(i)
    /\ (\E sig \in Signals : proc.handlers[sig] = "handler") => proc.atexit >= 1
    /\ proc.pc # "failed" => proc.error = None

\* the same with the default of SIGINT for both signals, which is what the
\* handler does
HandlerCleansUpThenInterrupts ==
    /\ \A i \in 1..Len(proc.handled) :
         proc.handled[i].by = "handler" =>
            proc.handled[i].did = <<"cleanup", SignalDefault("SIGINT")>>
    /\ (\E sig \in Signals : proc.handlers[sig] = "handler") => proc.atexit >= 1
    /\ proc.pc # "failed" => proc.error = None

(***************************************************************************)
(* A client paging through list_threads                                    *)
(***************************************************************************)
\* the walk after the page of request req: the ids of the page are visited,
\* and the next request carries the page's endCursor while hasNextPage says
\* there is more
Walked(visited, req, p) ==
    [pc |-> IF p.raised THEN "raised" ELSE IF p.hasNextPage THEN "walking" ELSE "done",
     request |-> IF ~p.raised /\ p.hasNextPage
                 THEN Request(req.first, p.endCursor, req.search, req.userId)
                 ELSE req,
     visited |-> visited \o [i \in 1..Len(p.data) |-> p.data[i].id]]

\* the pages list_threads can give for req
Pages(req) ==
    LET outcomes == ExecuteListQuery(sessions, req)
    IN IF outcomes = {} THEN {PageRaised(req)}
       ELSE {PaginatedResponse(req, results) : results \in outcomes}

\* the first call: no cursor, any page size, with or without a user filter
WalkStart ==
    /\ walk.pc = "off"
    /\ ~page.called
    /\ \E n \in 1..MaxFirst, u \in {None, "u1"} :
         LET req == Request(n, NoText, NoText, u)
         IN \E p \in Pages(req) :
              /\ page' = p
              /\ walk' = Walked(<< >>, req, p)
    /\ UNCHANGED <<event, result, session, thread, sessions, clock>>
    /\ UNCHANGED <<events, calls, ret, manager, proc, chat, pipeline>>

\* the next call, with the cursor the last page gave
WalkNext ==
    /\ walk.pc = "walking"
    /\ \E p \in Pages(walk.request) :
         /\ page' = p
         /\ walk' = Walked(walk.visited, walk.request, p)
    /\ UNCHANGED <<event, result, session, thread, sessions, clock>>
    /\ UNCHANGED <<events, calls, ret, manager, proc, chat, pipeline>>

NextWalk == CreateSession \/ WalkStart \/ WalkNext

SpecWalk == InitList /\ [][NextWalk]_vars

(***************************************************************************)
(* Vocabulary of the claim about paging                                    *)
(***************************************************************************)
\* the sessions the walk's filters ask for
WalkMatching ==
    {r \in sessions : Truthy(walk.request.userId) => r.user_id = walk.request.userId}

Visited(id) == {i \in 1..Len(walk.visited) : walk.visited[i] = id}

\* C20: when a walk from no cursor, each call made with the endCursor of the
\* page before, has reached the page without next page, the store being the
\* same throughout, every session its filters ask for has been visited once
\* and no other.
WalkVisitsEachMatchingSessionOnce ==
    walk.pc = "done" =>
        /\ \A r \in WalkMatching : Cardinality(Visited(r.id)) = 1
        /\ \A i \in 1..Len(walk.visited) :
             \E r \in WalkMatching : r.id = walk.visited[i]

\* no session is visited twice, and none that the filters do not ask for
WalkVisitsNoSessionTwice ==
    /\ \A r \in sessions : Cardinality(Visited(r.id)) <= 1
    /\ \A i \in 1..Len(walk.visited) :
         \E r \in WalkMatching : r.id = walk.visited[i]

\* the claim for the stores whose sessions have creation times of their own
WalkVisitsAllWithoutTies ==
    (walk.pc = "done"
     /\ \A r, q \in sessions : r.create_time = q.create_time => r = q) =>
        \A r \in WalkMatching : Cardinality(Visited(r.id)) = 1

(***************************************************************************)
(* The database manager: delete_old_sessions                               *)
(***************************************************************************)
\* WHERE create_time < datetime('now', '-days days'), evaluated at time now
IsOld(r, now, days) == r.create_time < now - days

\* delete_old_sessions(days) is called and runs its SELECT; it returns at
\* once when the SELECT gives no id
ManagerDeleteOldSessions ==
    /\ manager.pc = "idle"
    /\ \E days \in 1..MaxDays :
         \E old_session_ids \in Orderings({r.id : r \in {x \in sessions : IsOld(x, clock, days)}}) :
           manager' = Task(IF old_session_ids = << >> THEN "done" ELSE "deleting_old",
                           "delete_old_sessions",
                           [days |-> days, old_session_ids |-> old_session_ids],
                           [i \in 1..Len(old_session_ids) |->
                                Delete("events", "session_id", old_session_ids[i])])
    /\ UNCHANGED <<event, result, session, thread, sessions, clock, page>>
    /\ UNCHANGED <<events, calls, ret, proc, walk, chat, pipeline>>

\* the next DELETE FROM events of its loop
ManagerDeleteOldEvents ==
    /\ manager.pc = "deleting_old"
    /\ manager.stmts # << >>
    /\ events' = EventsAfter(events, Head(manager.stmts))
    /\ manager' = [manager EXCEPT
            !.stmts = Tail(@),
            !.events_deleted = @ + Cardinality(events) - Cardinality(events')]
    /\ UNCHANGED <<event, result, session, thread, sessions, clock, page>>
    /\ UNCHANGED <<calls, ret, proc, walk, chat, pipeline>>

\* DELETE FROM sessions WHERE create_time < datetime('now', '-days days'),
\* with the time it is when this statement runs
ManagerDeleteOldRows ==
    /\ manager.pc = "deleting_old"
    /\ manager.stmts = << >>
    /\ sessions' = {r \in sessions : ~IsOld(r, clock, manager.arg.days)}
    /\ manager' = [manager EXCEPT
            !.pc = "committing_old",
            !.sessions_deleted = @ + Cardinality(sessions) - Cardinality(sessions')]
    /\ UNCHANGED <<event, result, session, thread, clock, page>>
    /\ UNCHANGED <<events, calls, ret, proc, walk, chat, pipeline>>

\* conn.commit() and the return
ManagerCommitOld ==
    /\ manager.pc = "committing_old"
    /\ manager' = [manager EXCEPT !.pc = "done"]
    /\ UNCHANGED <<event, result, session, thread, sessions, clock, page>>
    /\ UNCHANGED <<events, calls, ret, proc, walk, chat, pipeline>>

\* time passes
Tick ==
    /\ clock < MaxClock + MaxDays + 1
    /\ clock' = clock + 1
    /\ UNCHANGED <<event, result, session, thread, sessions, page>>
    /\ UNCHANGED <<events, calls, ret, manager, proc, walk, chat, pipeline>>

InitOld ==
    /\ StoreInit({"u1"}, 0..MaxClock, DeleteBodies)
    /\ clock = MaxClock
    /\ calls = [c \in Callers |-> IdleCall]
    /\ ret = NoRet
    /\ manager = IdleManager
    /\ proc = IdleProc
    /\ walk = IdleWalk
    /\ chat = IdleChat
    /\ pipeline = IdlePipeline
    /\ page = NoPage
    /\ event = IdleEvent
    /\ result = NoResult
    /\ session = NoSession
    /\ thread = NoThread

NextOld ==
    \/ Tick
    \/ ManagerDeleteOldSessions
    \/ ManagerDeleteOldEvents
    \/ ManagerDeleteOldRows
    \/ ManagerCommitOld

SpecOld == InitOld /\ [][NextOld]_vars

(***************************************************************************)
(* Vocabulary of the claim about delete_old_sessions                       *)
(***************************************************************************)
OldSessionsDeleted == manager.name = "delete_old_sessions" /\ manager.pc = "done"

\* C21: when delete_old_sessions has completed, every event row left is the
\* event of a session row that is still there, whatever time passed between
\* its SELECT and its DELETE FROM sessions.
OldSessionsGoWithTheirEvents ==
    OldSessionsDeleted =>
        \A e \in events : \E r \in sessions : r.id = e.session_id

\* the sessions its SELECT gave are gone with their events
SelectedSessionsGoWithTheirEvents ==
    OldSessionsDeleted =>
        \A i \in 1..Len(manager.arg.old_session_ids) :
            Gone(sessions, events, manager.arg.old_session_ids[i])

\* it takes no session that is not old when its last statement runs
NoYoungSessionDeleted ==
    [][(manager.pc = "deleting_old" /\ manager'.pc = "committing_old") =>
          \A r \in sessions : r \notin sessions' => IsOld(r, clock, manager.arg.days)]_vars

(***************************************************************************)
(* The chat callbacks: on_chat_start, on_chat_resume, on_message and       *)
(* on_chat_end                                                             *)
(***************************************************************************)
\* user and user.identifier or "default_user"
UserIdOf(user) == IF Truthy(user) THEN user ELSE "default_user"

\* the users a chat can be opened by: none, or one that is logged in
ChatUsers == {None, "u1"}

\* not session_id or not user_id; a session_id of None is the empty id
IdsMissing(c) == c.session_id = << >> \/ ~Truthy(c.user_id)

\* the user session after on_chat_start when it stores the ids whether or
\* not create_session raised
AfterCreateSessionAlways(c, raised) ==
    [c EXCEPT !.session_id = c.id, !.user_id = UserIdOf(c.user),
              !.sent = IF raised THEN @ ELSE "welcome",
              !.outcomes = @ \cup {IF raised THEN "start_raised" ELSE "start_created"}]

\* the user session after on_chat_start: the ids are stored and the welcome
\* is sent after create_session, inside the try; its exception skips both
AfterCreateSession(c, raised) ==
    IF raised
    THEN [c EXCEPT !.outcomes = @ \cup {"start_raised"}]
    ELSE [c EXCEPT !.session_id = c.id, !.user_id = UserIdOf(c.user),
                   !.sent = "welcome", !.outcomes = @ \cup {"start_created"}]

\* the user session after on_chat_resume: the ids are stored after
\* get_session, inside the try, whatever it returned
AfterGetSession(c, raised) ==
    IF raised
    THEN [c EXCEPT !.outcomes = @ \cup {"resume_raised"}]
    ELSE [c EXCEPT !.session_id = c.id, !.user_id = UserIdOf(c.user),
                   !.outcomes = @ \cup {"resume_returned"}]

\* a client connects: a new chat with an id of its own, or a thread of the
\* store to resume
Connect ==
    /\ chat.pc = "off"
    /\ \E id \in StoreIds, user \in ChatUsers, how \in {"start", "resume"} :
         /\ how = "start" => \A r \in sessions : r.id # id
         /\ chat' = [IdleChat EXCEPT !.pc = how, !.id = id, !.user = user]
    /\ UNCHANGED <<event, result, session, thread, sessions, clock, page>>
    /\ UNCHANGED <<events, calls, ret, manager, proc, walk, pipeline>>

\* on_chat_start: create_session inserts the session row or raises
OnChatStart ==
    /\ chat.pc = "start"
    /\ \E raised \in BOOLEAN :
         /\ chat' = [AfterCreateSession(chat, raised) EXCEPT !.pc = "open"]
         /\ sessions' = IF raised THEN sessions
                        ELSE sessions \cup {Row(chat.id, UserIdOf(chat.user), clock)}
    /\ UNCHANGED <<event, result, session, thread, clock, page>>
    /\ UNCHANGED <<events, calls, ret, manager, proc, walk, pipeline>>

\* on_chat_resume(thread): get_session returns a session or None, or raises
OnChatResume ==
    /\ chat.pc = "resume"
    /\ \E raised \in BOOLEAN :
         chat' = [AfterGetSession(chat, raised) EXCEPT !.pc = "open"]
    /\ UNCHANGED <<event, result, session, thread, sessions, clock, page>>
    /\ UNCHANGED <<events, calls, ret, manager, proc, walk, pipeline>>

\* on_message up to the start of runner.run_async: without the ids it sends
\* the error message and returns; with them the runner loads the session
\* and raises when there is none
OnMessage ==
    /\ chat.pc = "open"
    /\ chat.end = "idle"
    /\ chat.run # "running"
    /\ chat.handled < MaxMessages
    /\ chat' = IF IdsMissing(chat)
               THEN [chat EXCEPT !.handled = @ + 1, !.sent = "error"]
               ELSE [chat EXCEPT
                       !.handled = @ + 1,
                       !.run = IF GetSession(sessions, events, APP_NAME,
                                             chat.user_id, chat.session_id).present
                               THEN "running" ELSE "raised"]
    /\ UNCHANGED <<event, result, session, thread, sessions, clock, page>>
    /\ UNCHANGED <<events, calls, ret, manager, proc, walk, pipeline>>

\* the runner appends an event to the session, the user's message first;
\* it raises when the session is gone
OnMessageEvent ==
    /\ chat.run = "running"
    /\ LET rows == EventRowsOf(events, chat.session_id)
       IN IF \A r \in sessions : r.id # chat.session_id
          THEN /\ chat' = [chat EXCEPT !.run = "raised"]
               /\ events' = events
          ELSE /\ Cardinality(rows) < MaxEvents
               /\ \E body \in DeleteBodies :
                    events' = events \cup
                        {EventRow(chat.session_id, Cardinality(rows) + 1, body)}
               /\ chat' = chat
    /\ UNCHANGED <<event, result, session, thread, sessions, clock, page>>
    /\ UNCHANGED <<calls, ret, manager, proc, walk, pipeline>>

\* the run is over and on_message returns
OnMessageDone ==
    /\ chat.run = "running"
    /\ chat' = [chat EXCEPT !.run = "done"]
    /\ UNCHANGED <<event, result, session, thread, sessions, clock, page>>
    /\ UNCHANGED <<events, calls, ret, manager, proc, walk, pipeline>>

\* on_chat_end up to the return of get_session: it returns without the ids,
\* when get_session raises, when there is no session and when the session
\* has events
OnChatEndLookup ==
    /\ chat.pc = "open"
    /\ chat.end = "idle"
    /\ \E raised \in BOOLEAN :
         LET s == GetSession(sessions, events, APP_NAME, chat.user_id, chat.session_id)
         IN chat' = IF IdsMissing(chat) THEN [chat EXCEPT !.end = "done"]
                    ELSE IF raised
                    THEN [chat EXCEPT !.end = "done",
                                      !.outcomes = @ \cup {"end_raised"}]
                    ELSE IF s.present /\ s.events = << >>
                    THEN [chat EXCEPT !.end = "deleting", !.found = s]
                    ELSE [chat EXCEPT !.end = "done", !.found = s]
    /\ UNCHANGED <<event, result, session, thread, sessions, clock, page>>
    /\ UNCHANGED <<events, calls, ret, manager, proc, walk, pipeline>>

\* on_chat_end from there: delete_session
OnChatEndDelete ==
    /\ chat.end = "deleting"
    /\ LET del == DeleteSession(sessions, events, APP_NAME, chat.user_id,
                                chat.session_id)
       IN /\ sessions' = del.sessions
          /\ events' = del.events
          /\ chat' = [chat EXCEPT
                        !.end = "done",
                        !.outcomes = @ \cup {IF del.raised THEN "end_raised"
                                             ELSE "end_deleted"}]
    /\ UNCHANGED <<event, result, session, thread, clock, page>>
    /\ UNCHANGED <<calls, ret, manager, proc, walk, pipeline>>

\* the chat is over: its user session is dropped
Disconnect ==
    /\ chat.pc = "open"
    /\ chat.end = "done"
    /\ chat.run # "running"
    /\ chat' = IdleChat
    /\ UNCHANGED <<event, result, session, thread, sessions, clock, page>>
    /\ UNCHANGED <<events, calls, ret, manager, proc, walk, pipeline>>

InitChat ==
    /\ sessions = {}
    /\ events = {}
    /\ clock = 0
    /\ chat = IdleChat
    /\ calls = [c \in Callers |-> IdleCall]
    /\ ret = NoRet
    /\ manager = IdleManager
    /\ proc = IdleProc
    /\ walk = IdleWalk
    /\ pipeline = IdlePipeline
    /\ page = NoPage
    /\ event = IdleEvent
    /\ result = NoResult
    /\ session = NoSession
    /\ thread = NoThread

NextChat ==
    \/ Connect
    \/ OnChatStart
    \/ OnChatResume
    \/ OnMessage
    \/ OnMessageEvent
    \/ OnMessageDone
    \/ OnChatEndLookup
    \/ OnChatEndDelete
    \/ Disconnect

SpecChat == InitChat /\ [][NextChat]_vars

(***************************************************************************)
(* Vocabulary of the claims about the chat callbacks                       *)
(***************************************************************************)
\* both ids are set in the user session
IdsSet == chat.session_id # << >> /\ chat.user_id # None

\* the step is on_message taking a message
MessageTaken == chat'.handled = chat.handled + 1

\* C22: a run of the agents is under way or over only in a chat whose user
\* session holds both ids, and it holds them only after create_session of
\* on_chat_start succeeded or get_session of on_chat_resume returned; an
\* on_message without them sends the error message, starts no run and leaves
\* the tables as they were, and events are appended by a run only.
MessageRunsOnlyWithSession ==
    [][/\ chat'.run # "idle" => (chat'.session_id # << >> /\ chat'.user_id # None)
       /\ (chat'.session_id # << >> /\ chat'.user_id # None) =>
             chat'.outcomes \cap {"start_created", "resume_returned"} # {}
       /\ (MessageTaken /\ ~IdsSet) =>
             /\ chat'.sent = "error"
             /\ chat'.run = chat.run
             /\ StoreUnchanged
       /\ (MessageTaken /\ IdsSet) => chat'.run \in {"running", "raised"}
       /\ (\E e \in events' : e \notin events) => (IdsSet /\ chat.run = "running")]_vars

\* create_session raised in on_chat_start and the message that followed got
\* the error message
MessageRefusedAfterFailedStart ==
    /\ "start_raised" \in chat.outcomes
    /\ chat.handled > 0
    /\ chat.sent = "error"
    /\ chat.run = "idle"

\* a message started a run in a chat that on_chat_start opened, and the run
\* appended an event
MessageRanAfterStart ==
    /\ "start_created" \in chat.outcomes
    /\ chat.run = "running"
    /\ EventRowsOf(events, chat.session_id) # {}

\* the step is a step of on_chat_end
ChatEndStep == chat'.end # chat.end /\ chat'.pc # "off"

\* the session of the chat as the store has it
ChatSession == GetSession(sessions, events, APP_NAME, chat.user_id, chat.session_id)

\* on_chat_end deletes nothing without the ids, without a stored session and
\* when its lookup raised, and goes on to delete_session when the lookup
\* gave a session without events
ChatEndLooksUpFirst ==
    /\ (ChatEndStep /\ (IdsMissing(chat) \/ ~ChatSession.present
                        \/ "end_raised" \in chat'.outcomes)) => StoreUnchanged
    /\ (ChatEndStep /\ chat.end = "idle" /\ ~IdsMissing(chat)
        /\ "end_raised" \notin chat'.outcomes
        /\ ChatSession.present /\ ChatSession.events = << >>) =>
          chat'.end = "deleting"
    /\ (ChatEndStep /\ chat.end = "idle") => StoreUnchanged

ChatEndDeletesSessionEmptyAtLookup ==
    [][/\ ChatEndLooksUpFirst
       /\ ChatEndStep =>
            \A r \in sessions : r \notin sessions' =>
                /\ r.id = chat.session_id
                /\ chat.found.present /\ chat.found.events = << >>]_vars

\* in a chat that took no message, on_chat_end deletes no session that has
\* events
ChatEndAloneDeletesOnlyEmptySession ==
    [][(ChatEndStep /\ chat.handled = 0) =>
            \A r \in sessions : r \notin sessions' =>
                EventRowsOf(events, r.id) = {}]_vars

\* ---------------------------------------------------------------------
\* The project pipeline: gameplay_designer, the gameplay refinement loop,
\* art_director, marketing_director, producer
\* ---------------------------------------------------------------------

max_gameplay_design_iterations == 5

\* the value of the state key gameplay_evaluation: absent, or a Feedback
\* whose grade is "pass" or "fail"
Feedback(grade) == [present |-> TRUE, grade |-> grade]

Evaluations == {NoEvaluation, Feedback("pass"), Feedback("fail")}

\* the sub-agents of the loop, in the order of the list
LoopSubAgents == <<"gameplay_evaluator", "escalation_checker", "gameplay_refiner">>

\* the sub-agents of the pipeline that follow the loop
AfterLoop == <<"art_director", "marketing_director", "producer">>

EscalatesWhenEvaluated(evaluation_result) == evaluation_result.present

\* EscalationChecker: the event it yields escalates iff the evaluation is
\* there and its grade is "pass"
Escalates(evaluation_result) == evaluation_result.present /\ evaluation_result.grade = "pass"

\* the one event of a run of the checker, with the evaluation it read
CheckerEvent(evaluation_result) == [author |-> "escalation_checker", escalate |-> Escalates(evaluation_result), seen |-> evaluation_result]

\* the loop after a full pass over its sub-agents: the next pass while
\* times_looped is below max_iterations, else the agent after the loop
AfterPass(times_looped) == IF times_looped < max_gameplay_design_iterations THEN LoopSubAgents[1] ELSE AfterLoop[1]

Ran(name) == [pipeline EXCEPT !.ran = Append(@, name)]

\* gameplay_designer, the first sub-agent of the pipeline; the loop starts
\* with times_looped = 0
RunGameplayDesigner ==
    /\ pipeline.pc = "gameplay_designer"
    /\ pipeline' = [Ran("gameplay_designer") EXCEPT !.pc = AfterPass(0), !.times_looped = 0]
    /\ UNCHANGED <<event, result, session, thread, sessions, clock, page>>
    /\ UNCHANGED <<events, calls, ret, manager, proc, walk, chat>>

\* gameplay_evaluator: its answer is validated against Feedback and stored
\* under gameplay_evaluation; without a final answer the key keeps its value
RunGameplayEvaluator ==
    /\ pipeline.pc = "gameplay_evaluator"
    /\ \E e \in {Feedback("pass"), Feedback("fail"), pipeline.gameplay_evaluation} :
        pipeline' = [Ran("gameplay_evaluator") EXCEPT !.pc = "escalation_checker", !.gameplay_evaluation = e]
    /\ UNCHANGED <<event, result, session, thread, sessions, clock, page>>
    /\ UNCHANGED <<events, calls, ret, manager, proc, walk, chat>>

\* escalation_checker yields its event; the loop returns when the event
\* escalates, without running the sub-agents after the checker
RunEscalationChecker ==
    /\ pipeline.pc = "escalation_checker"
    /\ LET e == CheckerEvent(pipeline.gameplay_evaluation)
       IN  pipeline' = [Ran("escalation_checker") EXCEPT
                            !.pc = IF e.escalate THEN AfterLoop[1] ELSE "gameplay_refiner",
                            !.checks = Append(@, e)]
    /\ UNCHANGED <<event, result, session, thread, sessions, clock, page>>
    /\ UNCHANGED <<events, calls, ret, manager, proc, walk, chat>>

\* gameplay_refiner, the last sub-agent of the loop: the pass is over and
\* times_looped goes up by one
RunGameplayRefiner ==
    /\ pipeline.pc = "gameplay_refiner"
    /\ pipeline' = [Ran("gameplay_refiner") EXCEPT
                        !.pc = AfterPass(pipeline.times_looped + 1),
                        !.times_looped = pipeline.times_looped + 1]
    /\ UNCHANGED <<event, result, session, thread, sessions, clock, page>>
    /\ UNCHANGED <<events, calls, ret, manager, proc, walk, chat>>

RunArtDirector ==
    /\ pipeline.pc = "art_director"
    /\ pipeline' = [Ran("art_director") EXCEPT !.pc = "marketing_director"]
    /\ UNCHANGED <<event, result, session, thread, sessions, clock, page>>
    /\ UNCHANGED <<events, calls, ret, manager, proc, walk, chat>>

RunMarketingDirector ==
    /\ pipeline.pc = "marketing_director"
    /\ pipeline' = [Ran("marketing_director") EXCEPT !.pc = "producer"]
    /\ UNCHANGED <<event, result, session, thread, sessions, clock, page>>
    /\ UNCHANGED <<events, calls, ret, manager, proc, walk, chat>>

RunProducer ==
    /\ pipeline.pc = "producer"
    /\ pipeline' = [Ran("producer") EXCEPT !.pc = "done"]
    /\ UNCHANGED <<event, result, session, thread, sessions, clock, page>>
    /\ UNCHANGED <<events, calls, ret, manager, proc, walk, chat>>

\* the run of a model agent raises (the model call fails, or the answer of
\* the evaluator does not validate): the pipeline ends there
AgentRaises ==
    /\ pipeline.pc \in {"gameplay_designer", "gameplay_evaluator", "gameplay_refiner", "art_director", "marketing_director", "producer"}
    /\ pipeline' = [pipeline EXCEPT !.pc = "raised"]
    /\ UNCHANGED <<event, result, session, thread, sessions, clock, page>>
    /\ UNCHANGED <<events, calls, ret, manager, proc, walk, chat>>

\* the pipeline is about to run; the session state holds the evaluation an
\* earlier run of the pipeline left, if any
InitPipeline ==
    /\ sessions = {}
    /\ events = {}
    /\ clock = 0
    /\ chat = IdleChat
    /\ calls = [c \in Callers |-> IdleCall]
    /\ ret = NoRet
    /\ manager = IdleManager
    /\ proc = IdleProc
    /\ walk = IdleWalk
    /\ page = NoPage
    /\ event = IdleEvent
    /\ result = NoResult
    /\ session = NoSession
    /\ thread = NoThread
    /\ \E e \in Evaluations :
        pipeline = [IdlePipeline EXCEPT !.pc = "gameplay_designer", !.gameplay_evaluation = e]

NextPipeline ==
    \/ RunGameplayDesigner
    \/ RunGameplayEvaluator
    \/ RunEscalationChecker
    \/ RunGameplayRefiner
    \/ RunArtDirector
    \/ RunMarketingDirector
    \/ RunProducer
    \/ AgentRaises

\* the runner drives the pipeline's generator to its end: a sub-agent that
\* can run does run
SpecPipeline == InitPipeline /\ [][NextPipeline]_vars /\ WF_vars(NextPipeline)

\* s is the beginning of t
IsPrefixOf(s, t) == Len(s) <= Len(t) /\ \A i \in 1..Len(s) : s[i] = t[i]

\* k whole iterations: evaluator, checker, refiner, k times over
WholeIterations(k) == [i \in 1..(3 * k) |-> <<"gameplay_evaluator", "escalation_checker", "gameplay_refiner">>[((i - 1) % 3) + 1]]

\* the agents of a whole run, in order: the designer, k whole iterations,
\* then either an iteration cut after its checker or nothing, then the art
\* director, the marketing director and the producer
RunOf(k, cut) == <<"gameplay_designer">> \o WholeIterations(k) \o (IF cut THEN <<"gameplay_evaluator", "escalation_checker">> ELSE << >>) \o <<"art_director", "marketing_director", "producer">>

\* the iterations in which the checker's event escalated
PassingIterations == {i \in 1..Len(pipeline.checks) : pipeline.checks[i].escalate}

\* the run the pipeline is making: cut in its first passing iteration, or
\* five whole iterations long
RunUnderWay == IF PassingIterations = {} THEN RunOf(5, FALSE) ELSE RunOf((CHOOSE i \in PassingIterations : \A j \in PassingIterations : i <= j) - 1, TRUE)

\* at every moment: the checker has yielded one event per run of it, within
\* five iterations; each of its events escalates iff the evaluation it read
\* is there with grade "pass"; and the agents run so far are the beginning
\* of the run that is cut in the first passing iteration, or is five
\* iterations long, and all of it once the pipeline is done
RefinementLoopShape ==
    /\ Len(pipeline.checks) <= 5
    /\ Len(pipeline.checks) = Cardinality({i \in 1..Len(pipeline.ran) : pipeline.ran[i] = "escalation_checker"})
    /\ \A i \in 1..Len(pipeline.checks) :
        pipeline.checks[i].escalate <=>
            (pipeline.checks[i].seen.present /\ pipeline.checks[i].seen.grade = "pass")
    /\ IsPrefixOf(pipeline.ran, RunUnderWay)
    /\ pipeline.pc = "done" => pipeline.ran = RunUnderWay

\* the pipeline's run is over: the producer has run, or an agent raised
PipelineOver == pipeline.pc \in {"done", "raised"}

\* C24: the gameplay refinement loop terminates: every iteration runs the
\* evaluator, the escalation checker and the refiner in that order; the
\* checker yields exactly one event, which escalates iff the state's
\* gameplay_evaluation exists with grade "pass"; the loop stops in the first
\* iteration whose evaluation passes, without that iteration's refiner, and
\* in every case within five iterations; the art director, the marketing
\* director and the producer then run in that order, and the run comes to
\* its end
RefinementLoopTerminates == [](RefinementLoopShape) /\ <>(PipelineOver)

\* the first evaluation failed, the second passed: the loop stopped in its
\* second iteration and the pipeline ran to its end
LoopStoppedBySecondEvaluation ==
    /\ pipeline.pc = "done"
    /\ Len(pipeline.checks) = 2
    /\ pipeline.checks[2].escalate
    /\ ~pipeline.checks[1].escalate

\* no evaluation passed: the loop ran its five iterations and the pipeline
\* ran to its end
LoopStoppedByMaxIterations ==
    /\ pipeline.pc = "done"
    /\ Len(pipeline.checks) = 5
    /\ PassingIterations = {}

====
